---- MODULE Spec2Model ----
(***************************************************************************)
(* ZodiacCore-Py: the database lifecycle manager (zodiac_core/db/session.py *)
(* and db/repository.py) and the trace-id middleware                        *)
(* (zodiac_core/middleware.py), as state machines.                          *)
(*                                                                          *)
(* SpecDb      : DatabaseManager registry, shutdown, session scopes.        *)
(* SpecSession : session scopes over registry and injected factories.       *)
(* SpecTrace   : TraceIDMiddleware.dispatch over task-local trace contexts. *)
(* SpecStack   : register_middleware: trace layer around access-log layer.  *)
(* SpecApi     : routes, envelopes and exception handlers of the HTTP layer.*)
(* SpecPage    : PageParams and BaseSQLRepository.paginate.                 *)
(***************************************************************************)
EXTENDS Naturals, Sequences, FiniteSets, TLC

\* ------------------------------------------------------------------ bounds
\* Engines that setup() may create in one run.
MaxEngines == 2
\* Session scopes that may be opened in one run.
MaxSessions == 1
\* Nesting depth of in-process requests inside one task.
MaxDepth == 2

\* Rows a paginated query may match, and the highest page asked for.
MaxRows == 3
MaxPage == 3

\* Files a configuration directory holds at most.
MaxFiles == 2

\* Ticks of the UTC clock.
MaxClock == 2

\* ------------------------------------------------------- program constants
DEFAULT_DB_NAME == "default"
DefaultPoolSize == 10
DefaultMaxOverflow == 20
TraceIdLen == 36
DefaultPage == 1
DefaultSize == 20
MinPage == 1
MinSize == 1
MaxSize == 100
\* The rows of the pagination tests' list endpoint.
ExampleRows == 100

None == "None"

\* ------------------------------------------------------------------ inputs
Names == {DEFAULT_DB_NAME, "pg"}

\* A database URL is its scheme and its path; the path decides the physical
\* database, and both are searched by setup's '"sqlite" not in database_url'.
Urls ==
    { <<"sqlite+aiosqlite", "a.db">>,
      <<"postgresql+asyncpg", "h/app">> }

\* The parts of a URL that contain the substring "sqlite".
SqliteParts == {"sqlite+aiosqlite"}

\* The physical database a URL names.
DbOf(database_url) == database_url[2]

\* Configuration directories that may exist.
Dirs == {"conf", "extra"}

\* Exceptions a caller's block may raise: subclasses of Exception, and
\* BaseExceptions that are not (task cancellation).
ExceptionClasses == {"ValueError"}
BaseOnlyClasses == {"CancelledError"}
ROLLBACK_ERROR == "RollbackError"
CLOSE_ERROR == "CloseError"

\* Tasks that handle requests; a task may call the application in process
\* from inside a handler, which nests a request in the same task.
Tasks == {"t1", "t2"}

DEFAULT_HEADER == "X-Request-ID"
HeaderNames == {DEFAULT_HEADER, "X-Trace-ID"}

\* Header values a client may send: a uuid (36 characters) and one character less.
HeaderValues == {"aaaaaaaa-aaaa-4aaa-8aaa-aaaaaaaaaaaa", "aaaaaaaa-aaaa-4aaa-8aaa-aaaaaaaaaaa"}

\* The headers of a request: any of the names, each with a value.
RequestHeaders == UNION {[H -> HeaderValues] : H \in SUBSET HeaderNames}

\* str(uuid.uuid4()): what default_id_generator may return.
Uuid4 == {"11111111-1111-4111-8111-111111111111"}

\* The generator a TraceIDMiddleware is constructed with: the default, or a
\* callable of the application, which may return a string of any length.
DEFAULT_GENERATOR == "default_id_generator"
Generators == {DEFAULT_GENERATOR, "custom"}
CustomIds == {"req-1"}

VARIABLES
    _engines,            \* DatabaseManager._engines: insertion-ordered dict
    _session_factories,  \* DatabaseManager._session_factories
    pool,                \* every engine create_async_engine has returned
    shutdownIt,          \* the dict iterator of a shutdown() in progress
    sessions,            \* every session scope opened so far
    store,               \* committed rows of each physical database
    ret,                 \* outcome of the latest DatabaseManager call
    middleware,          \* the TraceIDMiddleware instance, once constructed
    ctx,                 \* the request-id context variable, per task
    stack,               \* dispatch frames in flight, per task
    last,                \* the latest thing a request did: a read, a response, a raise
    reply,               \* the latest call into the HTTP layer and what it gave
    _instance,           \* DatabaseManager._instance: the singleton, once built
    resource,            \* the init_db_resource generator: where it stands
    disk,                \* the configuration directories that exist, with their files
    environ,             \* os.environ: the environment variable naming the target
    found,               \* the latest get_config_files call and what it returned
    tree,                \* the file system under the output directory
    cli,                 \* the latest run of the 'new' command: arguments, exit code
    clock,               \* the UTC clock
    record,              \* the mapped instance held by the application
    table,               \* its row in the table, once inserted
    assigned             \* the attributes assigned since the latest flush

dbVars == <<_engines, _session_factories, pool, shutdownIt, sessions, store, ret>>
traceVars == <<middleware, ctx, stack, last>>
apiVars == <<reply>>
mgrVars == <<_instance, resource>>
configVars == <<disk, environ, found>>
cliVars == <<tree, cli>>
ormVars == <<clock, record, table, assigned>>
libVars == <<mgrVars, configVars, cliVars, ormVars>>
vars == <<dbVars, traceVars, apiVars, libVars>>

\* ------------------------------------------------- insertion-ordered dicts
DictKeys(d) == {d[i].k : i \in 1..Len(d)}

DictIndex(d, key) == CHOOSE i \in 1..Len(d) : d[i].k = key

DictGet(d, key) == d[DictIndex(d, key)].v

DictSet(d, key, val) ==
    IF key \in DictKeys(d)
    THEN [d EXCEPT ![DictIndex(d, key)] = [k |-> key, v |-> val]]
    ELSE Append(d, [k |-> key, v |-> val])

DictValues(d) == {d[i].v : i \in 1..Len(d)}

\* ------------------------------------------------------- DatabaseManager
\* A call either returns a value or raises RuntimeError(f"{what} '{name}' is
\* not initialized. Call db.setup(name='{name}') first.").
RuntimeError(what, name) == [ok |-> FALSE, error |-> "RuntimeError", what |-> what, name |-> name]

Returned(value) == [ok |-> TRUE, value |-> value]

Outcome(r) == IF r.ok THEN "ok" ELSE r.error

\* The exception a call raised, if any: what it says is missing, and for which name.
Raised(r) == IF r.ok THEN <<>> ELSE <<r.what, r.name>>

get_engine(name) ==
    IF name \notin DictKeys(_engines)
    THEN RuntimeError("Database engine", name)
    ELSE Returned(DictGet(_engines, name))

\* get_factory with a fallback to the default database for an unknown name.
get_factory_fallback(name) ==
    IF name \in DictKeys(_session_factories)
    THEN Returned(DictGet(_session_factories, name))
    ELSE IF DEFAULT_DB_NAME \in DictKeys(_session_factories)
    THEN Returned(DictGet(_session_factories, DEFAULT_DB_NAME))
    ELSE RuntimeError("Session factory", name)

get_factory(name) ==
    IF name \notin DictKeys(_session_factories)
    THEN RuntimeError("Session factory", name)
    ELSE Returned(DictGet(_session_factories, name))

ContainsSqlite(database_url) == \E i \in 1..Len(database_url) : database_url[i] \in SqliteParts

\* engine_args of setup: the pool options are passed only to non-sqlite URLs.
EngineArgs(database_url, pool_size) ==
    IF ~ContainsSqlite(database_url)
    THEN [pool_size |-> pool_size, max_overflow |-> DefaultMaxOverflow]
    ELSE [pool_size |-> None, max_overflow |-> None]

\* create_async_engine: a new engine object, identified by its index in pool.
NewEngine(database_url, pool_size) ==
    [url |-> database_url, args |-> EngineArgs(database_url, pool_size), disposed |-> FALSE]

\* A factory bound to the first engine ever made instead of its own.
NewFactory_first(engine) == [fid |-> engine, bind |-> 1]

\* async_sessionmaker(bind=engine): a new factory object bound to the engine.
NewFactory(engine) == [fid |-> engine, bind |-> engine]

\* The lifespan task is inside shutdown(), suspended at 'await engine.dispose()'.
ShuttingDown == shutdownIt # <<>>

\* setup without its 'already configured' guard: the entry is replaced.
SetupReplaces(database_url, name) ==
    /\ name \in DictKeys(_engines)
    /\ Len(pool) < MaxEngines
    /\ LET engine == Len(pool) + 1 IN
        /\ pool' = Append(pool, NewEngine(database_url, DefaultPoolSize))
        /\ _engines' = DictSet(_engines, name, engine)
        /\ _session_factories' = DictSet(_session_factories, name, NewFactory(engine))
    /\ ret' = [op |-> "setup", name |-> name, result |-> "created", same_url |-> TRUE]

SetupSkipped(database_url, name) ==
    /\ name \in DictKeys(_engines)
    /\ ret' = [op |-> "setup", name |-> name, result |-> "skipped",
               same_url |-> pool[DictGet(_engines, name)].url = database_url]
    /\ UNCHANGED <<_engines, _session_factories, pool>>

\* setup that raises after registering the engine, before the factory is.
SetupCreates_engine_only(database_url, name) ==
    /\ name \notin DictKeys(_engines)
    /\ Len(pool) < MaxEngines
    /\ LET engine == Len(pool) + 1 IN
        /\ pool' = Append(pool, NewEngine(database_url, DefaultPoolSize))
        /\ _engines' = DictSet(_engines, name, engine)
        /\ UNCHANGED _session_factories
    /\ ret' = [op |-> "setup", name |-> name, result |-> "TypeError", same_url |-> TRUE]

SetupCreates(database_url, name) ==
    /\ name \notin DictKeys(_engines)
    /\ Len(pool) < MaxEngines
    /\ LET engine == Len(pool) + 1 IN
        /\ pool' = Append(pool, NewEngine(database_url, DefaultPoolSize))
        /\ _engines' = DictSet(_engines, name, engine)
        /\ _session_factories' = DictSet(_session_factories, name, NewFactory(engine))
    /\ ret' = [op |-> "setup", name |-> name, result |-> "created", same_url |-> TRUE]

\* db.setup(database_url, name), called by the lifespan task.
Setup(database_url, name) ==
    /\ ~ShuttingDown
    /\ \/ SetupSkipped(database_url, name)
       \/ SetupCreates(database_url, name)
    /\ UNCHANGED <<shutdownIt, sessions, store, traceVars, apiVars, libVars>>

\* db.get_engine(name); db.engine is get_engine(DEFAULT_DB_NAME).
GetEngine(name) ==
    /\ ret' = [op |-> "get_engine", name |-> name, result |-> Outcome(get_engine(name)),
               error |-> Raised(get_engine(name))]
    /\ UNCHANGED <<_engines, _session_factories, pool, shutdownIt, sessions, store, traceVars, apiVars, libVars>>

\* db.get_factory(name); db.session_factory is get_factory(DEFAULT_DB_NAME).
GetFactory(name) ==
    /\ ret' = [op |-> "get_factory", name |-> name, result |-> Outcome(get_factory(name)),
               error |-> Raised(get_factory(name))]
    /\ UNCHANGED <<_engines, _session_factories, pool, shutdownIt, sessions, store, traceVars, apiVars, libVars>>

\* ------------------------------------------------------------- shutdown
\* 'for engine in self._engines.values()': the iterator remembers the dict's
\* size (di_used) and its position; next() raises RuntimeError when the size
\* has changed, ends the loop past the last entry, else yields the entry.
DictIter(d) == [used |-> Len(d), pos |-> 0, engine |-> 0]

\* next() on a live iterator: the entry at the position, which then advances.
IterNext(it, d) == [it EXCEPT !.pos = @ + 1, !.engine = d[it.pos + 1].v]

IterSizeChanged(it, d) == it.used # Len(d)

IterExhausted(it, d) == it.pos >= Len(d)

DisposeEngine(p, engine) == [p EXCEPT ![engine].disposed = TRUE]

\* shutdown that forgets the session factories.
ShutdownClearEnginesOnly(n) ==
    /\ _engines' = <<>>
    /\ shutdownIt' = <<>>
    /\ ret' = [op |-> "shutdown", result |-> "ok", disposed |-> n]
    /\ UNCHANGED _session_factories

\* The loop has ended: clear both registries and return.
ShutdownClear(n) ==
    /\ _engines' = <<>>
    /\ _session_factories' = <<>>
    /\ shutdownIt' = <<>>
    /\ ret' = [op |-> "shutdown", result |-> "ok", disposed |-> n]

\* shutdown() up to its first suspension (or to its end on an empty registry).
ShutdownEnter ==
    IF IterExhausted(DictIter(_engines), _engines)
    THEN ShutdownClear(0) /\ UNCHANGED pool
    ELSE /\ shutdownIt' = <<IterNext(DictIter(_engines), _engines)>>
         /\ UNCHANGED <<_engines, _session_factories, pool, ret>>

\* The lifespan task calls 'await db.shutdown()'.
ShutdownBegin ==
    /\ ~ShuttingDown
    /\ ShutdownEnter
    /\ UNCHANGED <<sessions, store, traceVars, apiVars, libVars>>

\* The rest of shutdown() from a suspension to the next one, or to its end.
ShutdownResume ==
    /\ pool' = DisposeEngine(pool, shutdownIt[1].engine)
    /\ LET it == shutdownIt[1] IN
       IF IterSizeChanged(it, _engines)
       THEN /\ shutdownIt' = <<>>
            /\ ret' = [op |-> "shutdown", result |-> "RuntimeError", disposed |-> it.pos]
            /\ UNCHANGED <<_engines, _session_factories>>
       ELSE IF IterExhausted(it, _engines)
       THEN ShutdownClear(it.pos)
       ELSE /\ shutdownIt' = <<IterNext(it, _engines)>>
            /\ UNCHANGED <<_engines, _session_factories, ret>>

\* shutdown iterating a copy, list(self._engines.values()), made when it began.
ShutdownStep_snapshot ==
    /\ ShuttingDown
    /\ pool' = DisposeEngine(pool, shutdownIt[1].engine)
    /\ LET it == shutdownIt[1] IN
       IF it.pos >= it.used
       THEN ShutdownClear(it.pos)
       ELSE /\ shutdownIt' = <<IterNext(it, _engines)>>
            /\ UNCHANGED <<_engines, _session_factories, ret>>
    /\ UNCHANGED <<sessions, store, traceVars, apiVars, libVars>>

\* 'await engine.dispose()' completes, and the loop runs to its next suspension.
ShutdownStep ==
    /\ ShuttingDown
    /\ ShutdownResume
    /\ UNCHANGED <<sessions, store, traceVars, apiVars, libVars>>

\* ------------------------------------------------------- manage_session
\* A session scope in its 'yield': the name it was asked for (None when the
\* factory was injected), the engine its factory binds it to, and whether it
\* holds changes added but not committed.
NewSession(name, factory) == [name |-> name, bind |-> factory.bind, pending |-> FALSE]

\* The row a commit of session s persists: through which name it was written,
\* the URL of the session's engine, and who called commit.
Row(s, by) == [via |-> s.name, url |-> pool[s.bind].url, by |-> by]

\* What a session sees: the committed rows of the database behind its engine.
Visible(s) == store[DbOf(pool[s.bind].url)]

\* session.commit(): pending changes reach the session's database.
Commit(st, s, by) ==
    IF s.pending
    THEN [st EXCEPT ![DbOf(pool[s.bind].url)] = @ \cup {Row(s, by)}]
    ELSE st

\* manage_session without the 'raise' of its except block.
manage_session_exit_swallows(raised, rollback_ok, close_ok) ==
    LET caught == raised \in ExceptionClasses
        afterExcept == IF caught THEN (IF rollback_ok THEN None ELSE ROLLBACK_ERROR) ELSE raised
    IN  [calls |-> IF caught THEN <<"rollback", "close">> ELSE <<"close">>,
         exc |-> IF close_ok THEN afterExcept ELSE CLOSE_ERROR]

\* manage_session committing on a clean exit.
manage_session_exit_autocommit(raised, rollback_ok, close_ok) ==
    LET caught == raised \in ExceptionClasses
        afterExcept == IF caught /\ ~rollback_ok THEN ROLLBACK_ERROR ELSE raised
    IN  [calls |-> IF caught THEN <<"rollback", "close">>
                   ELSE IF raised = None THEN <<"commit", "close">> ELSE <<"close">>,
         exc |-> IF close_ok THEN afterExcept ELSE CLOSE_ERROR]

\* manage_session closing after the rollback inside the except block instead
\* of in a finally.
manage_session_exit_no_finally(raised, rollback_ok, close_ok) ==
    LET caught == raised \in ExceptionClasses
        afterExcept == IF caught /\ ~rollback_ok THEN ROLLBACK_ERROR ELSE raised
        closed == ~caught \/ rollback_ok
    IN  [calls |-> IF caught THEN (IF rollback_ok THEN <<"rollback", "close">> ELSE <<"rollback">>)
                   ELSE <<"close">>,
         exc |-> IF closed /\ ~close_ok THEN CLOSE_ERROR ELSE afterExcept]

\* manage_session with a bare 'except:' in place of 'except Exception'.
manage_session_exit_bare_except(raised, rollback_ok, close_ok) ==
    LET caught == raised # None
        afterExcept == IF caught /\ ~rollback_ok THEN ROLLBACK_ERROR ELSE raised
    IN  [calls |-> IF caught THEN <<"rollback", "close">> ELSE <<"close">>,
         exc |-> IF close_ok THEN afterExcept ELSE CLOSE_ERROR]

\* The teardown of manage_session once the block has ended with 'raised' (None:
\* it completed): the calls awaited on the session, in order, and the exception
\* that leaves the scope. 'except Exception' rolls back and re-raises; 'finally'
\* closes; an exception raised by rollback or close replaces the one in flight.
manage_session_exit(raised, rollback_ok, close_ok) ==
    LET caught == raised \in ExceptionClasses
        afterExcept == IF caught /\ ~rollback_ok THEN ROLLBACK_ERROR ELSE raised
    IN  [calls |-> IF caught THEN <<"rollback", "close">> ELSE <<"close">>,
         exc |-> IF close_ok THEN afterExcept ELSE CLOSE_ERROR]

\* The store after the teardown's calls: only a commit among them persists.
StoreAfter(calls, s) ==
    IF \E i \in 1..Len(calls) :
          /\ calls[i] = "commit"
          /\ \A j \in 1..(i - 1) : calls[j] \notin {"rollback", "close"}
    THEN Commit(store, s, "manager")
    ELSE store

\* The calls of the teardown that raised.
FailedCalls(calls, rollback_ok, close_ok) ==
    {calls[i] : i \in {j \in 1..Len(calls) : \/ calls[j] = "rollback" /\ ~rollback_ok
                                             \/ calls[j] = "close" /\ ~close_ok}}

Remove(seq, i) == SubSeq(seq, 1, i - 1) \o SubSeq(seq, i + 1, Len(seq))

\* 'async with manage_session(made.value)': made is what resolving the factory
\* gave; a RuntimeError from it leaves before any session is created.
EnterScope(op, name, made) ==
    IF made.ok
    THEN /\ Len(sessions) < MaxSessions
         /\ sessions' = Append(sessions, NewSession(name, made.value))
         /\ ret' = [op |-> op, name |-> name, result |-> "ok", error |-> <<>>,
                    bind |-> made.value.bind]
    ELSE /\ ret' = [op |-> op, name |-> name, result |-> Outcome(made), error |-> Raised(made),
                    bind |-> 0]
         /\ UNCHANGED sessions

\* 'async with db.session(name)' is entered.
DbSession(name) ==
    /\ EnterScope("db.session", name, get_factory(name))
    /\ UNCHANGED <<_engines, _session_factories, pool, shutdownIt, store, traceVars, apiVars, libVars>>

\* BaseSQLRepository.session: the injected factory, else the registry's.
RepoFactory(injected, db_name) ==
    IF injected # <<>> THEN Returned(injected[1]) ELSE get_factory(db_name)

\* 'async with repository.session()' is entered, for a repository built with
\* (session_factory, db_name).
RepoSession(injected, db_name) ==
    /\ EnterScope("repo.session", IF injected # <<>> THEN None ELSE db_name,
                  RepoFactory(injected, db_name))
    /\ UNCHANGED <<_engines, _session_factories, pool, shutdownIt, store, traceVars, apiVars, libVars>>

\* The caller's block: session.add(row).
BlockAdd(i) ==
    /\ i \in 1..Len(sessions)
    /\ ~sessions[i].pending
    /\ sessions' = [sessions EXCEPT ![i].pending = TRUE]
    /\ UNCHANGED <<_engines, _session_factories, pool, shutdownIt, store, ret, traceVars, apiVars, libVars>>

\* The caller's block: await session.commit().
BlockCommit(i) ==
    /\ i \in 1..Len(sessions)
    /\ sessions[i].pending
    /\ store' = Commit(store, sessions[i], "block")
    /\ sessions' = [sessions EXCEPT ![i].pending = FALSE]
    /\ UNCHANGED <<_engines, _session_factories, pool, shutdownIt, ret, traceVars, apiVars, libVars>>

\* The caller's block ends, normally (raised = None) or by raising, and the
\* scope is left: rollback and close succeed or raise as the driver decides.
ExitScope(i, raised, rollback_ok, close_ok) ==
    /\ i \in 1..Len(sessions)
    /\ LET out == manage_session_exit(raised, rollback_ok, close_ok) IN
        /\ store' = StoreAfter(out.calls, sessions[i])
        /\ ret' = [op |-> "exit", raised |-> raised, calls |-> out.calls,
                   failed |-> FailedCalls(out.calls, rollback_ok, close_ok),
                   exc |-> out.exc, dropped |-> sessions[i].pending]
    /\ sessions' = Remove(sessions, i)
    /\ UNCHANGED <<_engines, _session_factories, pool, shutdownIt, traceVars, apiVars, libVars>>

\* The factories a caller may hold and inject: every one setup has made.
HeldFactories == {<<>>} \cup {<<NewFactory(e)>> : e \in 1..Len(pool)}

\* ---------------------------------------------------------- trace context
\* zodiac_core.context: the request id lives in a context variable, so each
\* task has its own value; set returns a token holding the value it replaced
\* and reset puts that value back.
get_request_id(t) == ctx[t]

set_request_id(t, request_id) == [ctx EXCEPT ![t] = request_id]

TokenOf(t) == ctx[t]

reset_request_id(t, token) == [ctx EXCEPT ![t] = token]

\* The loguru patcher: the request id a log record made in task t carries.
patcher(t) == IF get_request_id(t) # None /\ get_request_id(t) # "" THEN get_request_id(t) ELSE "-"

\* ------------------------------------------------------ TraceIDMiddleware
\* request.headers.get(name)
HeaderGet(headers, name) == IF name \in DOMAIN headers THEN headers[name] ELSE None

\* dispatch always generating, whatever the client sent.
ResolveRequestId_regenerates(inbound, generated) == generated

\* dispatch keeping whatever the client sent, of any length.
ResolveRequestId_keeps_any(inbound, generated) ==
    IF inbound = None THEN generated ELSE inbound

\* The inbound value when it is 36 characters long, else a generated one.
ResolveRequestId(inbound, generated) ==
    IF inbound = None \/ Len(inbound) # TraceIdLen THEN generated ELSE inbound

Top(t) == stack[t][Len(stack[t])]

\* self.generator(): what a call of the named generator may return.
Generate(generator) == IF generator = DEFAULT_GENERATOR THEN Uuid4 ELSE CustomIds

\* TraceIDMiddleware(app, header_name): the middleware is added to the app.
Construct(name, generator) ==
    /\ middleware = <<>>
    /\ middleware' = <<[header_name |-> name, generator |-> generator]>>
    /\ UNCHANGED <<ctx, stack, last, dbVars, apiVars, libVars>>

\* dispatch up to 'await call_next(request)': the id is resolved and set in
\* the context of the task, the token kept.
DispatchEnter(t, headers, generated) ==
    /\ middleware # <<>>
    /\ Len(stack[t]) < MaxDepth
    /\ generated \in Generate(middleware[1].generator)
    /\ LET inbound == HeaderGet(headers, middleware[1].header_name)
           request_id == ResolveRequestId(inbound, generated)
       IN  /\ stack' = [stack EXCEPT ![t] = Append(@, [inbound |-> inbound,
                                                        request_id |-> request_id,
                                                        token |-> TokenOf(t)])]
           /\ ctx' = set_request_id(t, request_id)
    /\ UNCHANGED <<middleware, last, dbVars, apiVars, libVars>>

\* The handler of the innermost request of task t reads the request id and logs.
HandlerRead(t) ==
    /\ stack[t] # <<>>
    /\ last' = [kind |-> "read", task |-> t, inbound |-> Top(t).inbound,
                request_id |-> Top(t).request_id, value |-> get_request_id(t),
                logged |-> patcher(t)]
    /\ UNCHANGED <<middleware, ctx, stack, dbVars, apiVars, libVars>>

\* What dispatch leaves behind: the response with the header set, or the
\* exception of call_next going on.
DispatchResult(t, outcome, context) ==
    [kind |-> outcome, task |-> t, inbound |-> Top(t).inbound,
     request_id |-> Top(t).request_id,
     headers |-> IF outcome = "response"
                 THEN [h \in {middleware[1].header_name} |-> Top(t).request_id]
                 ELSE <<>>,
     before |-> Top(t).token, after |-> context[t]]

\* dispatch resetting the context only on the way out with a response.
DispatchExit_no_finally(t, outcome) ==
    /\ stack[t] # <<>>
    /\ ctx' = IF outcome = "response" THEN reset_request_id(t, Top(t).token) ELSE ctx
    /\ last' = DispatchResult(t, outcome, ctx')
    /\ stack' = [stack EXCEPT ![t] = SubSeq(@, 1, Len(@) - 1)]
    /\ UNCHANGED <<middleware, dbVars, apiVars, libVars>>

\* dispatch clearing the context instead of resetting it to its token.
DispatchExit_clears(t, outcome) ==
    /\ stack[t] # <<>>
    /\ ctx' = set_request_id(t, None)
    /\ last' = DispatchResult(t, outcome, ctx')
    /\ stack' = [stack EXCEPT ![t] = SubSeq(@, 1, Len(@) - 1)]
    /\ UNCHANGED <<middleware, dbVars, apiVars, libVars>>

\* call_next returns a response or raises: the header is set on a response,
\* and the finally clause resets the context with the token either way.
DispatchExit(t, outcome) ==
    /\ stack[t] # <<>>
    /\ ctx' = reset_request_id(t, Top(t).token)
    /\ last' = DispatchResult(t, outcome, ctx')
    /\ stack' = [stack EXCEPT ![t] = SubSeq(@, 1, Len(@) - 1)]
    /\ UNCHANGED <<middleware, dbVars, apiVars, libVars>>

\* ------------------------------------------------------- the singleton
\* Every construction builds a new manager with empty registries.
__new___per_call(instance, engines, factories) ==
    [_instance |-> <<IF instance = <<>> THEN 1 ELSE (instance[1] % 2) + 1>>,
     _engines |-> <<>>, _session_factories |-> <<>>]

\* DatabaseManager.__new__: the object a construction returns, identified by a
\* number, and the registries that object has. Only the construction that
\* finds no instance builds one, with empty registries.
__new__(instance, engines, factories) ==
    IF instance = <<>>
    THEN [_instance |-> <<1>>, _engines |-> <<>>, _session_factories |-> <<>>]
    ELSE [_instance |-> instance, _engines |-> engines, _session_factories |-> factories]

\* The module-level 'db = DatabaseManager()', evaluated at import.
db == __new__(<<>>, <<>>, <<>>)

\* Some caller evaluates DatabaseManager().
DatabaseManager ==
    /\ LET made == __new__(_instance, _engines, _session_factories) IN
        /\ _instance' = made._instance
        /\ _engines' = made._engines
        /\ _session_factories' = made._session_factories
        /\ ret' = [op |-> "DatabaseManager", instance |-> made._instance[1]]
    /\ UNCHANGED <<pool, shutdownIt, sessions, store, resource, traceVars, apiVars,
                   configVars, cliVars, ormVars>>

InitMgr ==
    /\ _instance = db._instance
    /\ resource = [state |-> None]

\* No configuration directory exists yet, the environment variable is unset.
InitConfig ==
    /\ disk = [dir \in Dirs |-> <<>>]
    /\ environ = <<>>
    /\ found = [search_paths |-> <<>>]

\* The output directory is empty and the command has not run.
InitCli == tree = {} /\ cli = [message |-> None]

\* Nothing constructed yet; the clock stands at its first instant.
InitOrm == clock = 0 /\ record = <<>> /\ table = <<>> /\ assigned = {}

InitLib == InitMgr /\ InitConfig /\ InitCli /\ InitOrm

InitDb ==
    /\ _engines = db._engines
    /\ _session_factories = db._session_factories
    /\ pool = <<>>
    /\ shutdownIt = <<>>
    /\ sessions = <<>>
    /\ store = [d \in {DbOf(url) : url \in Urls} |-> {}]
    /\ ret = [op |-> None]

InitTrace ==
    /\ middleware = <<>>
    /\ ctx = [t \in Tasks |-> None]
    /\ stack = [t \in Tasks |-> <<>>]
    /\ last = [kind |-> None]

InitApi == reply = [op |-> None]

Init == InitDb /\ InitTrace /\ InitApi /\ InitLib

NextDb ==
    \/ \E u \in Urls, n \in Names : Setup(u, n)
    \/ \E n \in Names : GetEngine(n)
    \/ \E n \in Names : GetFactory(n)
    \/ ShutdownBegin
    \/ ShutdownStep
    \/ \E n \in Names : DbSession(n)
    \/ \E n \in Names : RepoSession(<<>>, n)
    \/ \E i \in 1..MaxSessions : BlockAdd(i)
    \/ \E i \in 1..MaxSessions : BlockCommit(i)
    \/ \E i \in 1..MaxSessions, e \in {None} \cup ExceptionClasses \cup BaseOnlyClasses,
          rb \in BOOLEAN, cl \in BOOLEAN : ExitScope(i, e, rb, cl)

SpecDb == Init /\ [][NextDb]_vars

\* Session scopes over any factory: the registry's, or one the caller injects
\* into a repository.
NextSession ==
    \/ \E u \in Urls, n \in Names : Setup(u, n)
    \/ \E n \in Names : DbSession(n)
    \/ \E f \in HeldFactories, n \in Names : RepoSession(f, n)
    \/ \E i \in 1..MaxSessions : BlockAdd(i)
    \/ \E i \in 1..MaxSessions : BlockCommit(i)
    \/ \E i \in 1..MaxSessions, e \in {None} \cup ExceptionClasses \cup BaseOnlyClasses,
          rb \in BOOLEAN, cl \in BOOLEAN : ExitScope(i, e, rb, cl)

SpecSession == Init /\ [][NextSession]_vars

\* The manager's own calls, with constructions of DatabaseManager among them.
NextManager ==
    \/ \E u \in Urls, n \in Names : Setup(u, n)
    \/ \E n \in Names : GetEngine(n)
    \/ \E n \in Names : GetFactory(n)
    \/ ShutdownBegin
    \/ ShutdownStep
    \/ DatabaseManager

SpecManager == Init /\ [][NextManager]_vars

\* db.setup(database_url, name) called by another task while the task that
\* called shutdown() is suspended in 'await engine.dispose()'.
SetupDuringShutdown(database_url, name) ==
    /\ ShuttingDown
    /\ \/ SetupSkipped(database_url, name)
       \/ SetupCreates(database_url, name)
    /\ UNCHANGED <<shutdownIt, sessions, store, traceVars, apiVars, libVars>>

\* One shutdown at a time, interleaved with the setup calls of other tasks.
NextConc ==
    \/ \E u \in Urls, n \in Names : Setup(u, n)
    \/ \E u \in Urls, n \in Names : SetupDuringShutdown(u, n)
    \/ \E n \in Names : GetEngine(n)
    \/ ShutdownBegin
    \/ ShutdownStep

SpecConc == Init /\ [][NextConc]_vars

\* ------------------------------------------------------ init_db_resource
\* The ways a consumer ends the generator: aclose(), or an exception of its
\* own thrown in at the yield.
Endings == {"aclose", "athrow"}

\* gen = init_db_resource(database_url, name): an async generator, of which
\* nothing has run yet.
InitDbResource(database_url, name) ==
    /\ resource.state \in {None, "closed"}
    /\ resource' = [state |-> "created", database_url |-> database_url, name |-> name,
                    yielded |-> 0, ended |-> None]
    /\ UNCHANGED <<dbVars, traceVars, apiVars, _instance, configVars, cliVars, ormVars>>

\* 'await anext(gen)': db.setup(database_url, name), then 'yield db'.
ResourceAdvance ==
    /\ resource.state = "created"
    /\ ~ShuttingDown
    /\ \/ SetupSkipped(resource.database_url, resource.name)
       \/ SetupCreates(resource.database_url, resource.name)
    /\ resource' = [resource EXCEPT !.state = "yielded", !.yielded = db._instance[1]]
    /\ UNCHANGED <<shutdownIt, sessions, store, traceVars, apiVars, _instance,
                   configVars, cliVars, ormVars>>

\* The generator without its try/finally: an exception thrown in at the yield
\* ends it at once.
ResourceClose_no_finally(ending) ==
    /\ resource.state = "yielded"
    /\ ~ShuttingDown
    /\ IF ending = "athrow"
       THEN /\ resource' = [resource EXCEPT !.state = "closed", !.ended = ending]
            /\ UNCHANGED <<_engines, _session_factories, pool, shutdownIt, ret>>
       ELSE /\ ShutdownEnter
            /\ resource' = [resource EXCEPT !.state = IF shutdownIt' = <<>> THEN "closed"
                                                      ELSE "finalizing",
                                            !.ended = ending]
    /\ UNCHANGED <<sessions, store, traceVars, apiVars, _instance, configVars, cliVars, ormVars>>

\* The consumer ends the generator suspended at its yield: the finally clause
\* runs 'await db.shutdown()', here up to shutdown's first suspension.
ResourceClose(ending) ==
    /\ resource.state = "yielded"
    /\ ~ShuttingDown
    /\ ShutdownEnter
    /\ resource' = [resource EXCEPT !.state = IF shutdownIt' = <<>> THEN "closed"
                                              ELSE "finalizing",
                                    !.ended = ending]
    /\ UNCHANGED <<sessions, store, traceVars, apiVars, _instance, configVars, cliVars, ormVars>>

\* The shutdown awaited in the finally clause goes on; when it has returned
\* the generator is finished.
ResourceFinalize ==
    /\ resource.state = "finalizing"
    /\ ShuttingDown
    /\ ShutdownResume
    /\ resource' = [resource EXCEPT !.state = IF shutdownIt' = <<>> THEN "closed" ELSE @]
    /\ UNCHANGED <<sessions, store, traceVars, apiVars, _instance, configVars, cliVars, ormVars>>

NextResource ==
    \/ \E u \in Urls, n \in Names : InitDbResource(u, n)
    \/ ResourceAdvance
    \/ \E ending \in Endings : ResourceClose(ending)
    \/ ResourceFinalize
    \/ \E u \in Urls, n \in Names : Setup(u, n)
    \/ \E n \in Names : GetEngine(n)

SpecResource == Init /\ [][NextResource]_vars

NextTrace ==
    \/ \E h \in HeaderNames, g \in Generators : Construct(h, g)
    \/ \E t \in Tasks, hs \in RequestHeaders, g \in Uuid4 \cup CustomIds : DispatchEnter(t, hs, g)
    \/ \E t \in Tasks : HandlerRead(t)
    \/ \E t \in Tasks, o \in {"response", "raise"} : DispatchExit(t, o)

SpecTrace == Init /\ [][NextTrace]_vars

\* =============================================================== HTTP layer
\* Python values that cross the HTTP layer are records with the name of their
\* class in 'kind'; keyword arguments are records of the arguments supplied
\* (an argument left out, or passed as None where None is the default, is absent).
NoneValue == [kind |-> "NoneType"]

NoArgs == <<>>

Arg(kw, name, default) == IF name \in DOMAIN kw THEN kw[name] ELSE default

\* type(v).__mro__, most derived class first.
Mro(kind) ==
    CASE kind = "Response" -> <<"Response", "BaseModel">>
      [] kind = "MyResponse" -> <<"MyResponse", "Response", "BaseModel">>
      [] kind = "User" -> <<"User", "BaseModel">>
      [] kind = "JSONResponse" -> <<"JSONResponse", "FastAPIResponse">>
      [] kind = "ZodiacException" -> <<"ZodiacException", "Exception">>
      [] kind \in {"BadRequestException", "UnauthorizedException", "ForbiddenException",
                   "NotFoundException", "ConflictException"} ->
            <<kind, "ZodiacException", "Exception">>
      [] kind = "ValidationError" -> <<"ValidationError", "ValueError", "Exception">>
      [] kind = "RequestValidationError" ->
            <<"RequestValidationError", "ValidationException", "Exception">>
      [] kind \in {"ValueError", "KeyError", "RuntimeError"} -> <<kind, "Exception">>
      [] OTHER -> <<kind>>

isinstance(v, classes) == \E i \in 1..Len(Mro(v.kind)) : Mro(v.kind)[i] \in classes

\* ------------------------------------------------------------ response.py
\* pydantic.ValidationError for one field.
ValidationError(loc, type) ==
    [ok |-> FALSE, error |-> "ValidationError",
     exc |-> [kind |-> "ValidationError", errors |-> <<[loc |-> loc, type |-> type]>>]]

\* Response(**kw): code is a required field, data defaults to None and
\* message to "".
Response(kw) ==
    IF "code" \notin DOMAIN kw
    THEN ValidationError("code", "missing")
    ELSE Returned([kind |-> "Response", code |-> kw.code,
                   data |-> Arg(kw, "data", NoneValue),
                   message |-> Arg(kw, "message", "")])

\* What a value is once serialised to JSON: a model becomes an object of its
\* fields, None becomes null, dicts and lists stay.
Json(v) ==
    CASE v.kind = "User" -> [kind |-> "object", id |-> v.id, name |-> v.name]
      [] v.kind = "dict" -> [kind |-> "object", item |-> v.item]
      [] v.kind = "NoneType" -> [kind |-> "null"]
      [] OTHER -> v

\* response.model_dump(mode="json")
model_dump(response) ==
    [code |-> response.code, data |-> Json(response.data), message |-> response.message]

create_response(http_code, kw) ==
    LET code == Arg(kw, "code", http_code)
        response == Response([code |-> code, data |-> Arg(kw, "data", NoneValue),
                              message |-> Arg(kw, "message", "")]).value
    IN  [kind |-> "JSONResponse", status_code |-> http_code,
         content |-> model_dump(response)]

\* The keyword arguments with the function's default message filled in.
WithMessage(kw, message) ==
    [k \in DOMAIN kw \cup {"message"} |-> IF k \in DOMAIN kw THEN kw[k] ELSE message]

response_ok(kw) ==
    create_response(200, [code |-> Arg(kw, "code", 0), data |-> Arg(kw, "data", NoneValue),
                          message |-> Arg(kw, "message", "Success")])

response_bad_request(kw) == create_response(400, WithMessage(kw, "Bad Request"))

response_unauthorized(kw) == create_response(401, WithMessage(kw, "Unauthorized"))

response_forbidden(kw) == create_response(403, WithMessage(kw, "Forbidden"))

response_not_found(kw) == create_response(404, WithMessage(kw, "Not Found"))

response_conflict(kw) == create_response(409, WithMessage(kw, "Conflict"))

response_unprocessable_entity(kw) ==
    create_response(422, WithMessage(kw, "Unprocessable Entity"))

response_server_error(kw) ==
    create_response(500, WithMessage(kw, "Internal Server Error"))

\* ----------------------------------------------------------- exceptions.py
Tags == {"ZodiacException", "BadRequestException", "UnauthorizedException",
         "ForbiddenException", "NotFoundException", "ConflictException"}

\* The class attribute http_code of each tag.
http_code(tag) ==
    CASE tag = "BadRequestException" -> 400
      [] tag = "UnauthorizedException" -> 401
      [] tag = "ForbiddenException" -> 403
      [] tag = "NotFoundException" -> 404
      [] tag = "ConflictException" -> 409
      [] OTHER -> 500

\* tag(**kw): 'code or self.http_code' takes http_code for a code of 0 as for
\* no code; the attribute message exists only when a message was supplied.
ZodiacException(tag, kw) ==
    LET fields == [kind |-> tag,
                   code |-> IF "code" \in DOMAIN kw /\ kw.code # 0
                            THEN kw.code ELSE http_code(tag),
                   data |-> Arg(kw, "data", NoneValue)]
    IN  IF "message" \in DOMAIN kw
        THEN [k \in DOMAIN fields \cup {"message"} |->
                 IF k = "message" THEN kw.message ELSE fields[k]]
        ELSE fields

\* --------------------------------------------------- exception_handlers.py
\* handler_zodiac_exception answering every tag as a server error.
handler_zodiac_exception_all_500(exc) ==
    response_server_error(
        IF "message" \in DOMAIN exc
        THEN [code |-> exc.code, data |-> exc.data, message |-> exc.message]
        ELSE [code |-> exc.code, data |-> exc.data])

handler_zodiac_exception(exc) ==
    LET kwargs == IF "message" \in DOMAIN exc
                  THEN [code |-> exc.code, data |-> exc.data, message |-> exc.message]
                  ELSE [code |-> exc.code, data |-> exc.data]
    IN  CASE isinstance(exc, {"BadRequestException"}) -> response_bad_request(kwargs)
          [] isinstance(exc, {"UnauthorizedException"}) -> response_unauthorized(kwargs)
          [] isinstance(exc, {"ForbiddenException"}) -> response_forbidden(kwargs)
          [] isinstance(exc, {"NotFoundException"}) -> response_not_found(kwargs)
          [] isinstance(exc, {"ConflictException"}) -> response_conflict(kwargs)
          [] OTHER -> response_server_error(kwargs)

handler_validation_exception(exc) ==
    response_unprocessable_entity([data |-> [kind |-> "list", errors |-> exc.errors]])

\* The record logger.error writes for an unhandled exception.
ErrorLine(path, exc) == [level |-> "ERROR", path |-> path, text |-> exc.text]

\* handler_global_exception putting the exception's text in the response.
handler_global_exception_leaks(path, exc) ==
    [response |-> response_server_error([message |-> exc.text]),
     logged |-> <<ErrorLine(path, exc)>>]

\* handler_global_exception: the error is logged, the response is the fixed one.
handler_global_exception(path, exc) ==
    [response |-> response_server_error(NoArgs),
     logged |-> <<ErrorLine(path, exc)>>]

\* register_exception_handlers: the classes handlers are registered for.
Handled == {"RequestValidationError", "ValidationError", "ZodiacException", "Exception"}

\* The handler the application picks for an exception: the one registered for
\* the first class of the exception's __mro__ that has one.
HandlerClass(exc) ==
    LET mro == Mro(exc.kind)
        first == CHOOSE i \in 1..Len(mro) :
                    /\ mro[i] \in Handled
                    /\ \A j \in 1..(i - 1) : mro[j] \notin Handled
    IN  mro[first]

\* An exception leaving a route of an application with the handlers registered.
HandleException(path, exc) ==
    CASE HandlerClass(exc) \in {"RequestValidationError", "ValidationError"} ->
            [response |-> handler_validation_exception(exc), logged |-> <<>>]
      [] HandlerClass(exc) = "ZodiacException" ->
            [response |-> handler_zodiac_exception(exc), logged |-> <<>>]
      [] OTHER -> handler_global_exception(path, exc)

\* --------------------------------------------------------------- routing.py
\* A type expression given as response_model: its name, typing.get_origin of
\* it, whether it is an instance of type, what issubclass(model, Response)
\* does with it, and (for the claims) whether it is the envelope class, a
\* subclass of it or Response[T]. get_origin of a parametrised pydantic model
\* depends on the pydantic version, so Response[User] comes in both forms.
TypeExpr(name, origin, is_type, subclass, envelope) ==
    [name |-> name, origin |-> origin, is_type |-> is_type, subclass |-> subclass,
     envelope |-> envelope]

AnyType == TypeExpr("Any", None, FALSE, "TypeError", FALSE)

NoneType == TypeExpr("None", None, FALSE, "TypeError", FALSE)

TypeExprs ==
    { AnyType, NoneType,
      TypeExpr("User", None, TRUE, "False", FALSE),
      TypeExpr("Response", None, TRUE, "True", TRUE),
      TypeExpr("MyResponse", None, TRUE, "True", TRUE),
      TypeExpr("Response[User]", "Response", TRUE, "True", TRUE),
      TypeExpr("Response[User]", None, TRUE, "True", TRUE),
      TypeExpr("Union[User, None]", "Union", FALSE, "TypeError", FALSE),
      TypeExpr("List[User]", "list", FALSE, "TypeError", FALSE),
      TypeExpr("list[User]", "list", TRUE, "TypeError", FALSE) }

\* _should_wrap without the try/except around issubclass.
_should_wrap_unguarded(model) ==
    IF model = AnyType \/ model = NoneType THEN Returned(TRUE)
    ELSE IF model.origin = "Response" THEN Returned(FALSE)
    ELSE IF model.is_type
         THEN IF model.subclass = "TypeError"
              THEN [ok |-> FALSE, error |-> "TypeError"]
              ELSE Returned(model.subclass # "True")
         ELSE Returned(TRUE)

\* _should_wrap(model): whether the model is still to be wrapped in Response[T].
_should_wrap(model) ==
    IF model = AnyType \/ model = NoneType THEN Returned(TRUE)
    ELSE IF model.origin = "Response" THEN Returned(FALSE)
    ELSE IF model.is_type /\ model.subclass = "True" THEN Returned(FALSE)
    ELSE Returned(TRUE)

\* Response[model]
_wrap_response_model(model) ==
    [name |-> "Response[T]", origin |-> "Response", is_type |-> TRUE, subclass |-> "True",
     envelope |-> TRUE, arg |-> model]

\* ZodiacRoute.__init__: the response model and the models of the additional
\* responses as they are handed to APIRoute, or the exception that leaves.
ZodiacRoute(response_model, responses) ==
    LET resolved == IF response_model.name = "DefaultPlaceholder"
                    THEN response_model.value ELSE response_model
        main == _should_wrap(resolved)
        extra == [c \in DOMAIN responses |->
                    IF "model" \in DOMAIN responses[c]
                    THEN _should_wrap(responses[c].model) ELSE Returned(FALSE)]
    IN  IF ~main.ok THEN main
        ELSE IF \E c \in DOMAIN responses : ~extra[c].ok
        THEN [ok |-> FALSE, error |-> "TypeError"]
        ELSE Returned(
            [response_model |->
                IF main.value
                THEN _wrap_response_model(IF resolved = NoneType THEN AnyType ELSE resolved)
                ELSE resolved,
             responses |->
                [c \in DOMAIN responses |->
                    IF "model" \in DOMAIN responses[c] /\ extra[c].value
                    THEN [model |-> _wrap_response_model(responses[c].model)]
                    ELSE responses[c]]])

\* _maybe_wrap_result wrapping whatever the endpoint returned.
_maybe_wrap_result_always(result) ==
    IF isinstance(result, {"FastAPIResponse"}) THEN Returned(result)
    ELSE Response([code |-> 0, data |-> result, message |-> "Success"])

\* _maybe_wrap_result(result): an envelope or a raw response passes through,
\* anything else goes into Response(data=result).
_maybe_wrap_result(result) ==
    IF isinstance(result, {"Response", "FastAPIResponse"})
    THEN Returned(result)
    ELSE Response([data |-> result])

\* ------------------------------------------------------- requests served
\* What an endpoint may return: plain values, envelopes it built itself
\* (Response and a subclass) and raw HTTP responses.
PlainResults ==
    { [kind |-> "User", id |-> 2, name |-> "Zodiac"],
      [kind |-> "dict", item |-> "manual"],
      NoneValue }

EnvelopeResults ==
    { Response([code |-> 409, message |-> "User already exists"]).value,
      [kind |-> "MyResponse", code |-> 0, data |-> [kind |-> "dict", item |-> "manual"],
       message |-> "Success"] }

RawResults ==
    { response_ok([data |-> [kind |-> "dict", item |-> "manual"]]),
      [kind |-> "FastAPIResponse", status_code |-> 204, content |-> NoneValue] }

\* Keyword arguments an exception tag may be constructed with.
CodeArgs == {NoArgs, [code |-> 0], [code |-> 10001]}
DataArgs == {NoArgs, [data |-> [kind |-> "dict", item |-> "taken"]]}
MessageArgs == {NoArgs, [message |-> "Custom"], [message |-> ""]}
ExceptionArgs == {c @@ d @@ m : c \in CodeArgs, d \in DataArgs, m \in MessageArgs}

\* Exceptions that are neither ZodiacExceptions nor validation errors, with
\* the text they carry.
OtherExceptions ==
    {[kind |-> k, text |-> t] : k \in {"ValueError", "KeyError"},
                                t \in {"secret-1", "secret-2"}}

ValidationExceptions ==
    {[kind |-> k, errors |-> <<[loc |-> "age", type |-> "int_parsing"]>>] :
        k \in {"ValidationError", "RequestValidationError"}}

Paths == {"/zodiac/user"}

\* What the client gets for a value the wrapped endpoint returned: a raw
\* response as it is, an envelope serialised with status 200.
Serialise(value) ==
    IF isinstance(value, {"FastAPIResponse"})
    THEN [status_code |-> value.status_code, content |-> value.content]
    ELSE [status_code |-> 200, content |-> model_dump(value)]

\* A route is added to a Zodiac APIRouter.
AddRoute(response_model, responses) ==
    /\ reply' = [op |-> "route", response_model |-> response_model,
                 responses |-> responses,
                 route |-> ZodiacRoute(response_model, responses)]
    /\ UNCHANGED <<dbVars, traceVars, libVars>>

\* A request to a route of a Zodiac APIRouter whose endpoint returns result:
\* the wrapper of _wrap_endpoint runs, and an exception leaving it goes to the
\* registered exception handlers.
EndpointReturns(path, result) ==
    LET wrapped == _maybe_wrap_result(result)
        handled == HandleException(path, wrapped.exc)
    IN  /\ reply' = [op |-> "return", result |-> result, wrapped |-> wrapped,
                     sent |-> IF wrapped.ok THEN Serialise(wrapped.value)
                              ELSE [status_code |-> handled.response.status_code,
                                    content |-> handled.response.content],
                     logged |-> IF wrapped.ok THEN <<>> ELSE handled.logged]
        /\ UNCHANGED <<dbVars, traceVars, libVars>>

\* A request whose endpoint raises tag(**kw).
EndpointRaisesTag(path, tag, kw) ==
    LET exc == ZodiacException(tag, kw)
        handled == HandleException(path, exc)
    IN  /\ reply' = [op |-> "tag", tag |-> tag, kw |-> kw, exc |-> exc,
                     sent |-> [status_code |-> handled.response.status_code,
                               content |-> handled.response.content],
                     logged |-> handled.logged]
        /\ UNCHANGED <<dbVars, traceVars, libVars>>

\* A request whose endpoint raises another exception: the registered handler
\* answers.
EndpointRaises(path, exc) ==
    LET handled == HandleException(path, exc)
    IN  /\ reply' = [op |-> "raise", exc |-> exc,
                     sent |-> [status_code |-> handled.response.status_code,
                               content |-> handled.response.content],
                     logged |-> handled.logged]
        /\ UNCHANGED <<dbVars, traceVars, libVars>>

\* ------------------------------------------------------------ pagination.py
\* PageParams clamping page and size into range.
PageParams_clamps(kw) ==
    LET page == Arg(kw, "page", DefaultPage)
        size == Arg(kw, "size", DefaultSize)
    IN  Returned([page |-> IF page < MinPage THEN MinPage ELSE page,
                  size |-> IF size < MinSize THEN MinSize
                           ELSE IF size > MaxSize THEN MaxSize ELSE size])

\* PageParams(**kw): page >= 1 and 1 <= size <= 100, or a ValidationError.
PageParams(kw) ==
    LET page == Arg(kw, "page", DefaultPage)
        size == Arg(kw, "size", DefaultSize)
    IN  IF page < MinPage THEN ValidationError("page", "greater_than_equal")
        ELSE IF size < MinSize THEN ValidationError("size", "greater_than_equal")
        ELSE IF size > MaxSize THEN ValidationError("size", "less_than_equal")
        ELSE Returned([page |-> page, size |-> size])

\* PagedResponse.create(items, total, params)
PagedResponse_create(items, total, params) ==
    [items |-> items, total |-> total, page |-> params.page, size |-> params.size]

\* ------------------------------------------------- BaseSQLRepository.paginate
\* A select statement: the rows it matches, in its order, and the offset and
\* limit set on it (<<>> when not set).
Statement(rows, offset, limit) == [rows |-> rows, offset |-> offset, limit |-> limit]

Min(a, b) == IF a < b THEN a ELSE b

\* session.execute(statement): the rows after the offset, up to the limit.
Execute(statement) ==
    LET n == Len(statement.rows)
        skip == IF statement.offset = <<>> THEN 0 ELSE Min(statement.offset[1], n)
        rest == SubSeq(statement.rows, skip + 1, n)
    IN  IF statement.limit = <<>> THEN rest
        ELSE SubSeq(rest, 1, Min(statement.limit[1], Len(rest)))

\* transformer.model_validate(item)
model_validate(item) == [kind |-> "Schema", id |-> item]

\* paginate skipping page * size rows.
paginate_off_by_one(statement, params, transformer) ==
    LET count_base == Statement(statement.rows, <<>>, <<>>)
        total == Len(Execute(count_base))
        skip == params.page * params.size
        paged_stmt == Statement(statement.rows, <<skip>>, <<params.size>>)
        items == Execute(paged_stmt)
    IN  [queries |-> <<count_base, paged_stmt>>,
         result |-> PagedResponse_create(
                        IF transformer THEN [i \in DOMAIN items |-> model_validate(items[i])]
                        ELSE items, total, params)]

\* paginate(session, statement, params, transformer): the count over the
\* statement without limit and offset, then the page.
paginate(statement, params, transformer) ==
    LET count_base == Statement(statement.rows, <<>>, <<>>)
        total == Len(Execute(count_base))
        skip == (params.page - 1) * params.size
        paged_stmt == Statement(statement.rows, <<skip>>, <<params.size>>)
        items == Execute(paged_stmt)
    IN  [queries |-> <<count_base, paged_stmt>>,
         result |-> PagedResponse_create(
                        IF transformer THEN [i \in DOMAIN items |-> model_validate(items[i])]
                        ELSE items, total, params)]

\* The rows of a table of n sequential items.
Sequential(n) == [i \in 1..n |-> i]

RowCounts == (0..MaxRows) \cup {ExampleRows}

PageArgs == {NoArgs} \cup {[page |-> p] : p \in 0..MaxPage}

SizeArgs == {NoArgs} \cup {[size |-> z] : z \in {0, 1, 2, 10, MaxSize, MaxSize + 1}}

\* A list endpoint: the query parameters are validated into PageParams, and
\* only then does the repository paginate the statement.
ListPage(n, offset, limit, kw, transformer) ==
    LET params == PageParams(kw)
        statement == Statement(Sequential(n), offset, limit)
    IN  /\ reply' = [op |-> "page", n |-> n, statement |-> statement, kw |-> kw,
                     transformer |-> transformer, params |-> params,
                     paged |-> IF params.ok
                               THEN paginate(statement, params.value, transformer)
                               ELSE [queries |-> <<>>]]
        /\ UNCHANGED <<dbVars, traceVars, libVars>>

NextApi ==
    \/ \E m \in TypeExprs \cup {[name |-> "DefaultPlaceholder", value |-> NoneType]},
          r \in {NoArgs} \cup {[c \in {409} |-> [model |-> t]] : t \in TypeExprs}
                         \cup {[c \in {409} |-> [description |-> "Conflict"]]} :
            AddRoute(m, r)
    \/ \E p \in Paths, v \in PlainResults \cup EnvelopeResults \cup RawResults :
            EndpointReturns(p, v)
    \/ \E p \in Paths, tag \in Tags, kw \in ExceptionArgs : EndpointRaisesTag(p, tag, kw)
    \/ \E p \in Paths, exc \in OtherExceptions \cup ValidationExceptions :
            EndpointRaises(p, exc)

SpecApi == Init /\ [][NextApi]_vars

\* Statements as a repository method hands them to paginate: without limit
\* and offset, or with both already set.
NextPage ==
    \E n \in RowCounts, lo \in {<<<<>>, <<>>>>, <<<<1>>, <<2>>>>},
       pg \in PageArgs, sz \in SizeArgs, tr \in BOOLEAN :
        ListPage(n, lo[1], lo[2], pg @@ sz, tr)

SpecPage == Init /\ [][NextPage]_vars

\* ------------------------------------- AccessLogMiddleware, register_middleware
Methods == {"GET"}
LogPaths == {"/log-test"}
StatusCodes == {200, 404}
\* (time.perf_counter() - start_time) * 1000, in whole milliseconds.
Latencies == {0, 12}

\* register_middleware(app): AccessLogMiddleware is added first and is the
\* inner layer, TraceIDMiddleware with its defaults is added last and is the
\* outer one. The layers are kept outermost first.
register_middleware ==
    /\ middleware = <<>>
    /\ middleware' = <<[header_name |-> DEFAULT_HEADER, generator |-> DEFAULT_GENERATOR],
                       [access_log |-> TRUE]>>
    /\ UNCHANGED <<ctx, stack, last, dbVars, apiVars, libVars>>

\* The frame f with the fields of g added or replaced.
Extend(f, g) == g @@ f

SetTop(t, f) == [stack EXCEPT ![t] = [@ EXCEPT ![Len(@)] = f]]

AccessEntered(f) == "access" \in DOMAIN f

\* A request enters the stack: the trace layer runs first. A task takes a
\* further request only from inside the handler of the one it is serving.
StackEnter(t, headers, generated) ==
    /\ Len(middleware) = 2
    /\ stack[t] # <<>> => (AccessEntered(Top(t)) /\ Top(t).access = "inner")
    /\ DispatchEnter(t, headers, generated)

\* AccessLogMiddleware.dispatch up to 'await call_next(request)': called by
\* the trace layer's call_next, it takes the start time.
AccessLogEnter(t, method, path) ==
    /\ Len(middleware) = 2
    /\ stack[t] # <<>>
    /\ ~AccessEntered(Top(t))
    /\ stack' = SetTop(t, Extend(Top(t), [access |-> "inner", method |-> method,
                                          path |-> path, lines |-> <<>>]))
    /\ UNCHANGED <<middleware, ctx, last, dbVars, apiVars, libVars>>

\* The record logger.info writes, with the request id the patcher adds.
AccessLine(t, status_code, latency) ==
    [method |-> Top(t).method, path |-> Top(t).path, status_code |-> status_code,
     latency |-> latency, request_id |-> patcher(t)]

\* AccessLogMiddleware.dispatch from 'await call_next(request)' on: call_next
\* returns a response, the line is logged and the response returned; or
\* call_next raises and the exception leaves dispatch with nothing logged.
AccessLogExit(t, outcome, status_code, latency) ==
    /\ stack[t] # <<>>
    /\ AccessEntered(Top(t)) /\ Top(t).access = "inner"
    /\ stack' = SetTop(t, Extend(Top(t),
            [access |-> outcome,
             lines |-> IF outcome = "response"
                       THEN <<AccessLine(t, status_code, latency)>>
                       ELSE <<>>]))
    /\ UNCHANGED <<middleware, ctx, last, dbVars, apiVars, libVars>>

\* The trace layer's call_next is over: it returned what the access layer
\* returned, or raised what it raised.
StackExit(t) ==
    /\ stack[t] # <<>>
    /\ AccessEntered(Top(t)) /\ Top(t).access \in {"response", "raise"}
    /\ DispatchExit(t, Top(t).access)

NextStack ==
    \/ register_middleware
    \/ \E t \in Tasks, hs \in RequestHeaders, g \in Uuid4 : StackEnter(t, hs, g)
    \/ \E t \in Tasks, m \in Methods, p \in LogPaths : AccessLogEnter(t, m, p)
    \/ \E t \in Tasks, o \in {"response", "raise"}, sc \in StatusCodes, l \in Latencies :
            AccessLogExit(t, o, sc, l)
    \/ \E t \in Tasks : StackExit(t)

SpecStack == Init /\ [][NextStack]_vars

\* ============================================================== config.py
\* A file name is the sequence of its dot-separated parts: app.develop.ini is
\* <<"app", "develop", "ini">>. FileOrder lists the names that may be on disk
\* in the order sorted() gives their paths inside one directory (upper case
\* before lower case, "develop" before "ini").
FileOrder ==
    << <<"app", "DEVELOP", "ini">>,
       <<"app", "develop", "ini">>,
       <<"app", "ini">>,
       <<"app", "production", "ini">>,
       <<"app", "weirdo", "ini">>,
       <<"notes", "txt">> >>

FileNames == {FileOrder[i] : i \in 1..Len(FileOrder)}

\* The entries of search_paths: a directory that never exists and the empty
\* string among them.
SearchPaths == { <<"conf">>, <<"missing", "conf", "extra">>, <<"", "extra", "conf">> }

\* Values of the environment variable, when set, and of default_env.
EnvValues == {"develop", "PRODUCTION"}
DefaultEnvs == {"production", "DEVELOP"}

\* Environment: the known environments.
valid_envs == {"develop", "testing", "staging", "production"}

\* str.lower on the words in use.
lower(s) ==
    CASE s = "DEVELOP" -> "develop"
      [] s = "PRODUCTION" -> "production"
      [] OTHER -> s

\* Path.exists
exists(dir) == dir \in DOMAIN disk /\ disk[dir] # <<>>

\* sorted(glob.glob(str(config_dir / "*.ini"))): the names ending in .ini, in
\* path order.
ini_files(config_dir) ==
    SelectSeq(FileOrder, LAMBDA f : /\ f \in disk[config_dir][1]
                                    /\ Len(f) >= 2
                                    /\ f[Len(f)] = "ini")

\* filename.count(".") == 1
__is_base_config_file(filename) == Len(filename) - 1 = 1

\* filename.split(".")[-2].lower()
__get_configuration_env(filename) == lower(filename[Len(filename) - 1])

\* The loop over the files of one directory: base files and files of the
\* target environment are appended to their lists, files of an unknown
\* environment are logged.
RECURSIVE ScanFiles(_, _, _, _)
ScanFiles(config_dir, files, target_env, lists) ==
    IF files = <<>> THEN lists
    ELSE LET filename == Head(files)
             file_path == [dir |-> config_dir, name |-> filename]
             candidate_env == __get_configuration_env(filename)
             appended ==
                 IF __is_base_config_file(filename)
                 THEN [lists EXCEPT !.base_files = Append(@, file_path)]
                 ELSE IF candidate_env = target_env
                 THEN [lists EXCEPT !.env_files = Append(@, file_path)]
                 ELSE IF candidate_env \in valid_envs
                 THEN lists
                 ELSE [lists EXCEPT !.logged = @ \cup {file_path}]
         IN  ScanFiles(config_dir, Tail(files), target_env, appended)

\* The loop over the search paths: a directory that does not exist is skipped.
RECURSIVE ScanDirs(_, _, _)
ScanDirs(abs_paths, target_env, lists) ==
    IF abs_paths = <<>> THEN lists
    ELSE LET config_dir == Head(abs_paths) IN
         ScanDirs(Tail(abs_paths), target_env,
                  IF ~exists(config_dir) THEN lists
                  ELSE ScanFiles(config_dir, ini_files(config_dir), target_env, lists))

\* get_config_files returning every file found in one sorted list.
get_config_files_one_list(search_paths, default_env) ==
    LET target_env == lower(IF environ # <<>> THEN environ[1] ELSE default_env)
        abs_paths == SelectSeq(search_paths, LAMBDA p : p # "")
        lists == ScanDirs(abs_paths, target_env,
                          [base_files |-> <<>>, env_files |-> <<>>, logged |-> {}])
        all == {lists.base_files[i] : i \in 1..Len(lists.base_files)}
                 \cup {lists.env_files[i] : i \in 1..Len(lists.env_files)}
        names == SelectSeq(FileOrder, LAMBDA f : \E p \in all : p.name = f)
    IN  [target_env |-> target_env,
         files |-> [i \in 1..Len(names) |-> CHOOSE p \in all : p.name = names[i]],
         logged |-> lists.logged]

\* ConfigManagement.get_config_files: the target environment it resolved, the
\* paths it returns (base files, then environment files) and the paths it logged.
get_config_files(search_paths, default_env) ==
    LET target_env == lower(IF environ # <<>> THEN environ[1] ELSE default_env)
        abs_paths == SelectSeq(search_paths, LAMBDA p : p # "")
        lists == ScanDirs(abs_paths, target_env,
                          [base_files |-> <<>>, env_files |-> <<>>, logged |-> {}])
    IN  [target_env |-> target_env,
         files |-> lists.base_files \o lists.env_files,
         logged |-> lists.logged]

\* A configuration directory is created.
Mkdir(dir) ==
    /\ disk[dir] = <<>>
    /\ disk' = [disk EXCEPT ![dir] = <<{}>>]
    /\ UNCHANGED <<environ, found, dbVars, traceVars, apiVars, mgrVars, cliVars, ormVars>>

\* A file is put into an existing configuration directory.
Touch(dir, filename) ==
    /\ disk[dir] # <<>>
    /\ filename \notin disk[dir][1]
    /\ Cardinality(disk[dir][1]) < MaxFiles
    /\ disk' = [disk EXCEPT ![dir] = <<@[1] \cup {filename}>>]
    /\ UNCHANGED <<environ, found, dbVars, traceVars, apiVars, mgrVars, cliVars, ormVars>>

\* The environment variable named by env_var is set.
Setenv(value) ==
    /\ environ # <<value>>
    /\ environ' = <<value>>
    /\ UNCHANGED <<disk, found, dbVars, traceVars, apiVars, mgrVars, cliVars, ormVars>>

\* A call of ConfigManagement.get_config_files(search_paths, default_env=...).
GetConfigFiles(search_paths, default_env) ==
    /\ found' = [search_paths |-> search_paths, default_env |-> default_env]
                    @@ get_config_files(search_paths, default_env)
    /\ UNCHANGED <<disk, environ, dbVars, traceVars, apiVars, mgrVars, cliVars, ormVars>>

NextConfig ==
    \/ \E dir \in Dirs : Mkdir(dir)
    \/ \E dir \in Dirs, filename \in FileNames : Touch(dir, filename)
    \/ \E value \in EnvValues : Setenv(value)
    \/ \E search_paths \in SearchPaths, default_env \in DefaultEnvs :
          GetConfigFiles(search_paths, default_env)

SpecConfig == Init /\ [][NextConfig]_vars

\* ===================================================== zodiac/commands/new.py
VALID_TEMPLATES == {"standard-3tier"}

\* Exit codes of click: a ClickException and an uncaught exception give 1, a
\* usage error (missing or invalid parameter) gives 2.
ExitOk == 0
ExitError == 1
ExitUsage == 2

\* The template directory as os.walk hands it over: (root, files) from the top
\* down, the sub-directories in either order. A file name is its name without
\* its last six characters, and those characters.
TemplateRoot == [rel_path |-> <<>>, files |-> << <<"main.py", ".jinja">> >>]
TemplateApp == [rel_path |-> <<"app">>,
                files |-> << <<"__init__.py", ".jinja">>, <<"py.", "typed">> >>]
TemplateConfig == [rel_path |-> <<"config">>, files |-> << <<"app.ini", ".jinja">> >>]
Walks == { <<TemplateRoot, TemplateApp, TemplateConfig>>,
           <<TemplateRoot, TemplateConfig, TemplateApp>> }

\* Command lines: each parameter given or not, a template id that is no choice.
ProjectNames == {"proj"}
CommandLines ==
    [project_name : {<<>>} \cup {<<n>> : n \in ProjectNames},
     template : {<<>>, <<"standard-3tier">>, <<"invalid-template">>},
     output_dir : {<<>>, <<"out">>},
     force : BOOLEAN]

\* The file system below the output directory is a set of entries, one per
\* path that exists; a path is relative to the output directory.
DirEntry(path) == [path |-> path, kind |-> "dir", content |-> <<>>]
FileEntry(path, content) == [path |-> path, kind |-> "file", content |-> content]

PathsOf(fs) == {e.path : e \in fs}
IsDir(fs, path) == path = <<>> \/ \E e \in fs : e.path = path /\ e.kind = "dir"
IsFile(fs, path) == \E e \in fs : e.path = path /\ e.kind = "file"
Parent(path) == SubSeq(path, 1, Len(path) - 1)
Prefixes(path) == {SubSeq(path, 1, n) : n \in 1..Len(path)}

\* Path.mkdir(parents=True, exist_ok=True): every missing directory down to
\* the path is made; a file on the way, or at the path, makes it raise.
mkdir(fs, path) ==
    IF \E p \in Prefixes(path) : IsFile(fs, p)
    THEN [ok |-> FALSE, fs |-> fs]
    ELSE [ok |-> TRUE, fs |-> fs \cup {DirEntry(p) : p \in Prefixes(path) \ PathsOf(fs)}]

\* Path.write_text: the file is created or its content replaced; a directory
\* at the path makes it raise.
write_text(fs, path, content) ==
    IF IsDir(fs, path)
    THEN [ok |-> FALSE, fs |-> fs]
    ELSE [ok |-> TRUE, fs |-> {e \in fs : e.path # path} \cup {FileEntry(path, content)}]

\* template_obj.render(project_name=..., template_id=...)
render(rel_path, file, project_name, template) == <<rel_path \o <<file[1]>>, project_name, template>>

\* The loop over the files of one template directory.
RECURSIVE RenderFiles(_, _, _, _, _, _)
RenderFiles(fs, target_path, rel_path, files, project_name, template) ==
    IF files = <<>> THEN [ok |-> TRUE, fs |-> fs]
    ELSE LET file == Head(files) IN
         IF file[2] # ".jinja"
         THEN RenderFiles(fs, target_path, rel_path, Tail(files), project_name, template)
         ELSE LET dest_file == target_path \o rel_path \o <<file[1]>>
                  written == write_text(fs, dest_file,
                                        render(rel_path, file, project_name, template))
              IN  IF ~written.ok THEN written
                  ELSE RenderFiles(written.fs, target_path, rel_path, Tail(files),
                                   project_name, template)

\* The loop over os.walk(template_path).
RECURSIVE RenderTree(_, _, _, _, _)
RenderTree(fs, target_path, walk, project_name, template) ==
    IF walk = <<>> THEN [ok |-> TRUE, fs |-> fs]
    ELSE LET made == mkdir(fs, target_path \o Head(walk).rel_path) IN
         IF ~made.ok THEN made
         ELSE LET done == RenderFiles(made.fs, target_path, Head(walk).rel_path,
                                      Head(walk).files, project_name, template)
              IN  IF ~done.ok THEN done
                  ELSE RenderTree(done.fs, target_path, Tail(walk), project_name, template)

\* new_cmd without the check of the target: it generates over whatever is there.
new_cmd_overwrites(fs, argv, walk) ==
    IF argv.project_name = <<>> \/ argv.template = <<>> \/ argv.output_dir = <<>>
    THEN [exit_code |-> ExitUsage, message |-> "Missing", fs |-> fs]
    ELSE IF argv.template[1] \notin VALID_TEMPLATES
    THEN [exit_code |-> ExitUsage, message |-> "Invalid value for '--tpl'", fs |-> fs]
    ELSE LET done == RenderTree(fs, <<argv.project_name[1]>>, walk, argv.project_name[1],
                                argv.template[1])
         IN  IF done.ok
             THEN [exit_code |-> ExitOk, message |-> "Project created", fs |-> done.fs]
             ELSE [exit_code |-> ExitError, message |-> "OSError", fs |-> done.fs]

\* new_cmd deleting the target before it generates.
new_cmd_rmtree(fs, argv, walk) ==
    IF argv.project_name = <<>> \/ argv.template = <<>> \/ argv.output_dir = <<>>
    THEN [exit_code |-> ExitUsage, message |-> "Missing", fs |-> fs]
    ELSE IF argv.template[1] \notin VALID_TEMPLATES
    THEN [exit_code |-> ExitUsage, message |-> "Invalid value for '--tpl'", fs |-> fs]
    ELSE LET target_path == <<argv.project_name[1]>>
             cleared == {e \in fs : target_path \notin Prefixes(e.path)}
             done == RenderTree(cleared, target_path, walk, argv.project_name[1],
                                argv.template[1])
         IN  [exit_code |-> ExitOk, message |-> "Project created", fs |-> done.fs]

\* The 'new' command on a command line: what click's parsing of the declared
\* parameters and new_cmd make of it. The exit code, the message that decides
\* it and the file system it leaves.
new_cmd(fs, argv, walk) ==
    IF argv.project_name = <<>> \/ argv.template = <<>> \/ argv.output_dir = <<>>
    THEN [exit_code |-> ExitUsage, message |-> "Missing", fs |-> fs]
    ELSE IF argv.template[1] \notin VALID_TEMPLATES
    THEN [exit_code |-> ExitUsage, message |-> "Invalid value for '--tpl'", fs |-> fs]
    ELSE LET target_path == <<argv.project_name[1]>> IN
         IF target_path \in PathsOf(fs) /\ ~argv.force
         THEN [exit_code |-> ExitError,
               message |-> "Directory already exists. Use --force to overwrite.",
               fs |-> fs]
         ELSE LET done == RenderTree(fs, target_path, walk, argv.project_name[1],
                                     argv.template[1])
              IN  IF done.ok
                  THEN [exit_code |-> ExitOk, message |-> "Project created", fs |-> done.fs]
                  ELSE [exit_code |-> ExitError, message |-> "OSError", fs |-> done.fs]

\* What a user may have put below the output directory beforehand.
OldDirs == { <<"proj">>, <<"proj", "app">> }
OldFiles == { <<"proj", "old_file.txt">>, <<"proj", "main.py">>, <<"proj", "app">> }
OldContent == <<"old content">>

\* The user makes a directory.
UserMkdir(path) ==
    /\ path \notin PathsOf(tree)
    /\ IsDir(tree, Parent(path))
    /\ tree' = tree \cup {DirEntry(path)}
    /\ UNCHANGED <<cli, dbVars, traceVars, apiVars, mgrVars, configVars, ormVars>>

\* The user writes a file of their own.
UserWrite(path) ==
    /\ ~IsDir(tree, path)
    /\ IsDir(tree, Parent(path))
    /\ FileEntry(path, OldContent) \notin tree
    /\ tree' = write_text(tree, path, OldContent).fs
    /\ UNCHANGED <<cli, dbVars, traceVars, apiVars, mgrVars, configVars, ormVars>>

\* The user removes everything below the output directory.
UserRmtree ==
    /\ tree # {}
    /\ tree' = {}
    /\ UNCHANGED <<cli, dbVars, traceVars, apiVars, mgrVars, configVars, ormVars>>

\* zodiac new [PROJECT_NAME] [--tpl T] [-o DIR] [--force]
NewCmd(argv, walk) ==
    /\ LET run == new_cmd(tree, argv, walk) IN
        /\ tree' = run.fs
        /\ cli' = [argv |-> argv, exit_code |-> run.exit_code, message |-> run.message,
                   before |-> tree]
    /\ UNCHANGED <<dbVars, traceVars, apiVars, mgrVars, configVars, ormVars>>

NextCli ==
    \/ \E path \in OldDirs : UserMkdir(path)
    \/ \E path \in OldFiles : UserWrite(path)
    \/ UserRmtree
    \/ \E argv \in CommandLines, walk \in Walks : NewCmd(argv, walk)

SpecCli == Init /\ [][NextCli]_vars

\* ================================================================ db/sql.py
\* utc_now(): the clock's reading.
utc_now == clock

\* What the application assigns to an attribute of a persistent record: a
\* name, or a timestamp of its own choosing.
ProductNames == {"MacBook Pro", "MacBook Air"}
OwnTimestamp == 0
TimestampAttrs == {"created_at", "updated_at"}

\* session.dirty holds the record once an attribute of it has been set;
\* session.is_modified tells whether a set attribute differs from the row.
in_dirty == table # <<>> /\ assigned # {}
is_modified(o, committed) == \E a \in assigned : o[a] # committed[a]

\* No before_flush listener: the record is flushed as the application left it.
receive_before_flush_absent(o, committed) == o

\* receive_before_flush, for a record of a SQLDateTimeMixin model: what the
\* record is when the flush writes it.
receive_before_flush(o, committed) ==
    IF in_dirty /\ is_modified(o, committed)
    THEN [o EXCEPT !.updated_at = utc_now]
    ELSE o

\* Time passes.
Tick ==
    /\ clock < MaxClock
    /\ clock' = clock + 1
    /\ UNCHANGED <<record, table, assigned, dbVars, traceVars, apiVars, mgrVars,
                   configVars, cliVars>>

\* Product(name=...): both timestamps come from default_factory=utc_now.
NewRecord(name) ==
    /\ record = <<>>
    /\ record' = <<[name |-> name, created_at |-> utc_now, updated_at |-> utc_now]>>
    /\ UNCHANGED <<clock, table, assigned, dbVars, traceVars, apiVars, mgrVars,
                   configVars, cliVars>>

\* session.add(record) and the flush that inserts it: a new record is not in
\* session.dirty, so the listener leaves it alone.
InsertFlush ==
    /\ record # <<>> /\ table = <<>>
    /\ table' = <<receive_before_flush(record[1], record[1])>>
    /\ record' = table'
    /\ assigned' = {}
    /\ UNCHANGED <<clock, dbVars, traceVars, apiVars, mgrVars, configVars, cliVars>>

\* The application sets an attribute of the persistent record.
Assign(attr, value) ==
    /\ table # <<>>
    /\ record' = <<[record[1] EXCEPT ![attr] = value]>>
    /\ assigned' = assigned \cup {attr}
    /\ UNCHANGED <<clock, table, dbVars, traceVars, apiVars, mgrVars, configVars, cliVars>>

\* A flush (of a commit) with the record in session.dirty: the listener runs,
\* then the record is written.
UpdateFlush ==
    /\ in_dirty
    /\ table' = <<receive_before_flush(record[1], table[1])>>
    /\ record' = table'
    /\ assigned' = {}
    /\ UNCHANGED <<clock, dbVars, traceVars, apiVars, mgrVars, configVars, cliVars>>

NextOrm ==
    \/ Tick
    \/ \E name \in ProductNames : NewRecord(name)
    \/ InsertFlush
    \/ \E name \in ProductNames : Assign("name", name)
    \/ \E attr \in TimestampAttrs : Assign(attr, OwnTimestamp)
    \/ UpdateFlush

SpecOrm == Init /\ [][NextOrm]_vars

\* ===================================================== the OpenAPI document
\* Type expressions with their structure: the class or generic alias, and its
\* type arguments. User and ErrorMessage are models, List stands bare too.
Generic(name, origin, is_type, args) ==
    TypeExpr(name, origin, is_type, IF is_type THEN "False" ELSE "TypeError", FALSE)
        @@ [args |-> args]

UserModel == Generic("User", None, TRUE, <<>>)
ErrorMessageModel == Generic("ErrorMessage", None, TRUE, <<>>)
IntType == Generic("int", None, TRUE, <<>>)
BareList == Generic("List", "list", FALSE, <<>>)
ListOf(t) == Generic("List", "list", FALSE, <<t>>)

DocTypes == {UserModel, ErrorMessageModel, IntType, BareList, ListOf(UserModel),
             ListOf(ListOf(UserModel))}

DocPaths == {"/zodiac/user", "/zodiac/users", "/zodiac/conflict"}

\* A name is the sequence of its pieces: words, brackets, underscores.
\* pydantic's display_as_type: the class name, or the alias with its argument
\* in brackets.
RECURSIVE display_as_type(_)
display_as_type(t) ==
    IF t.args = <<>> THEN <<t.name>>
    ELSE <<t.name, "[">> \o display_as_type(t.args[1]) \o <<"]">>

\* pydantic's model_parametrized_name: the __name__ of Response[model].
model_parametrized_name(wrapped) == <<"Response", "[">> \o display_as_type(wrapped.arg) \o <<"]">>

\* pydantic's normalize_name: every character outside letters, digits, '.',
\* '-' and '_' becomes an underscore.
normalize_name(name) ==
    [i \in 1..Len(name) |-> IF name[i] \in {"[", "]", ",", " "} THEN "_" ELSE name[i]]

\* The key of a model among the components of the OpenAPI document.
get_defs_ref(model) ==
    IF "arg" \in DOMAIN model
    THEN normalize_name(model_parametrized_name(model))
    ELSE normalize_name(display_as_type(model))

\* The routes the document has so far, by path.
Documented == IF reply.op = "openapi" THEN reply.paths ELSE [p \in DocPaths |-> <<>>]

\* A route with response_model=model is added to a Zodiac APIRouter, and
\* app.openapi() is read: the route's 200 response refers to the component
\* of the model ZodiacRoute handed on.
DocumentRoute(path, model) ==
    /\ Documented[path] = <<>>
    /\ LET route == ZodiacRoute(model, NoArgs) IN
        /\ route.ok
        /\ reply' = [op |-> "openapi",
                     paths |-> [Documented EXCEPT ![path] =
                                  <<[model |-> model,
                                     ref |-> get_defs_ref(route.value.response_model)]>>]]
    /\ UNCHANGED <<dbVars, traceVars, libVars>>

NextDocs == \E path \in DocPaths, model \in DocTypes : DocumentRoute(path, model)

SpecDocs == Init /\ [][NextDocs]_vars

\* ==================================================================== claims
AllRows == UNION {store[d] : d \in DOMAIN store}

Exited == ret.op = "exit"

\* C1 (as stated): whenever the block of a session scope raises any exception,
\* rollback is awaited once, then close once, and that same exception leaves
\* the scope.
C1_AnyExceptionRollsBackAndPropagates ==
    (Exited /\ ret.raised # None) =>
        /\ ret.calls = <<"rollback", "close">>
        /\ ret.exc = ret.raised

\* C1 (amended): when the block raises a subclass of Exception, rollback is
\* awaited exactly once and then close exactly once; the original exception
\* leaves the scope unchanged when neither call raises, else the exception of
\* the failing call (close's, when both fail) leaves in its place.
C1_ExceptionRollsBackThenCloses ==
    (Exited /\ ret.raised \in ExceptionClasses) =>
        /\ ret.calls = <<"rollback", "close">>
        /\ ret.failed = {} => ret.exc = ret.raised
        /\ "close" \in ret.failed => ret.exc = CLOSE_ERROR
        /\ ret.failed = {"rollback"} => ret.exc = ROLLBACK_ERROR

C1_Witness == Exited /\ ret.raised \in ExceptionClasses /\ ret.failed = {}

\* C2: a scope whose block completes normally awaits close exactly once and
\* neither rollback nor commit; the manager never commits, so every persisted
\* row was committed by a caller's block.
C2_CleanExitOnlyCloses ==
    /\ (Exited /\ ret.raised = None) => ret.calls = <<"close">>
    /\ Exited => \A i \in 1..Len(ret.calls) : ret.calls[i] # "commit"
    /\ \A row \in AllRows : row.by = "block"

\* A block that added a change and left normally without committing: nothing
\* was persisted.
C2_Witness == Exited /\ ret.raised = None /\ ret.dropped /\ AllRows = {}

\* C3: when the block raises and the automatic rollback itself raises, close
\* is still awaited, after the rollback, before the scope is left.
C3_CloseAfterFailedRollback ==
    (Exited /\ "rollback" \in ret.failed) =>
        \E i, j \in 1..Len(ret.calls) :
            i < j /\ ret.calls[i] = "rollback" /\ ret.calls[j] = "close"

C3_Witness == Exited /\ ret.raised \in ExceptionClasses /\ "rollback" \in ret.failed

SetupStep == ret' # ret /\ ret'.op = "setup"

EntriesKept(names) ==
    \A n \in names :
        /\ n \in DictKeys(_engines') /\ DictGet(_engines', n) = DictGet(_engines, n)
        /\ n \in DictKeys(_session_factories')
        /\ DictGet(_session_factories', n) = DictGet(_session_factories, n)

Registered == {_engines[i].v : i \in 1..Len(_engines)}

\* C4: setup is idempotent per name. A setup for a registered name returns
\* without raising and leaves the engine and the factory of every registered
\* name the very same objects; a name occurs at most once in the registry, and
\* every engine not disposed is registered, so at most one engine per name.
C4_SetupIdempotent ==
    /\ [][SetupStep => /\ EntriesKept(DictKeys(_engines))
                       /\ ret'.name \in DictKeys(_engines) =>
                            /\ ret'.result = "skipped"
                            /\ UNCHANGED <<_engines, _session_factories, pool>>]_vars
    /\ [](\A i, j \in 1..Len(_engines) : _engines[i].k = _engines[j].k => i = j)
    /\ [](\A e \in 1..Len(pool) : ~pool[e].disposed => e \in Registered)

\* A duplicate setup, with another URL than the one the name was set up with.
C4_Witness == ret.op = "setup" /\ ret.result = "skipped" /\ ~ret.same_url

LookupOps == {"get_engine", "get_factory", "db.session", "repo.session"}

\* C6: for a name that is not registered, get_engine and get_factory (and so the
\* engine and session_factory properties, for the default name) and entering
\* db.session raise a RuntimeError that names the database; the call creates no
\* session and changes neither registry.
C6_UnregisteredRaises ==
    /\ [](\A n \in Names \ DictKeys(_engines) :
            /\ get_engine(n) = RuntimeError("Database engine", n)
            /\ get_factory(n) = RuntimeError("Session factory", n))
    /\ []((ret.op \in LookupOps /\ ret.result # "ok") =>
            ret.result = "RuntimeError" /\ ret.error[2] = ret.name)
    /\ [][(ret' # ret /\ ret'.op \in LookupOps /\ ret'.name \notin DictKeys(_engines)) =>
            /\ ret'.result = "RuntimeError"
            /\ UNCHANGED <<_engines, _session_factories, pool, sessions, store>>]_vars

\* db.session(name) refused after a shutdown removed every registration.
C6_Witness ==
    /\ ret.op = "db.session" /\ ret.result = "RuntimeError"
    /\ Len(pool) > 0 /\ _engines = <<>>

Entered == ret.op \in {"db.session", "repo.session"} /\ ret.result = "ok"

\* A session entered for a name is bound to the engine registered under it.
BoundToOwnEngine ==
    Entered => ret.name \in DictKeys(_engines) /\ ret.bind = DictGet(_engines, ret.name)

\* C7 (as stated, its clauses about states): a session for a name is bound to
\* that name's engine, and no session sees a row committed through a session
\* of a different name.
C7_NeverVisibleAcrossNames ==
    /\ BoundToOwnEngine
    /\ \A i \in 1..Len(sessions) : \A row \in Visible(sessions[i]) :
            row.via = sessions[i].name

\* C7 (amended): setup(name=a) leaves the engine and factory of every other
\* name unchanged; a session for a name is bound to that name's engine; and a
\* row committed through a session of name a is visible through a session of
\* another name b only when b's engine was created from a URL of the same
\* database as a's.
C7_IsolatedUnlessSameDatabase ==
    /\ [][SetupStep => EntriesKept(DictKeys(_engines) \ {ret'.name})]_vars
    /\ [](BoundToOwnEngine)
    /\ [](\A i \in 1..Len(sessions) : \A row \in Visible(sessions[i]) :
            row.via # sessions[i].name =>
                DbOf(row.url) = DbOf(pool[sessions[i].bind].url))
    /\ [](\A d \in DOMAIN store : \A row \in store[d] : DbOf(row.url) = d)

\* Two names on different databases, a row committed through one, and a
\* session open on the other.
C7_Witness ==
    /\ AllRows # {}
    /\ \E i \in 1..Len(sessions) : \E row \in AllRows :
            /\ row.via # sessions[i].name
            /\ DbOf(row.url) # DbOf(pool[sessions[i].bind].url)

InFlight(t) == stack[t] # <<>>

Finished == last.kind \in {"response", "raise"}

\* C8: once a request has been handled, by a response or by an exception, the
\* trace context of its task is what it was before the request, and a task
\* with no request in flight reads None.
C8_ContextRestored ==
    /\ \A t \in Tasks : ~InFlight(t) => get_request_id(t) = None
    /\ Finished => last.after = last.before

\* A request that ended with the handler's exception, outside any request.
C8_Witness ==
    /\ last.kind = "raise"
    /\ ~InFlight(last.task)
    /\ get_request_id(last.task) = None

\* C9: under every interleaving, what a task reads while it handles a request
\* is the id of its own innermost request, and the end of a request in one
\* task leaves what every other task reads unchanged.
C9_OwnIdOnly ==
    /\ [](\A t \in Tasks : InFlight(t) => get_request_id(t) = Top(t).request_id)
    /\ [](last.kind = "read" => last.value = last.request_id /\ last.logged = last.request_id)
    /\ [][\A b \in Tasks : Len(stack'[b]) < Len(stack[b]) =>
            \A a \in Tasks \ {b} : get_request_id(a)' = get_request_id(a)]_vars

\* A request has just ended in one task while a request with another id is
\* in flight in another task.
C9_Witness ==
    /\ Finished
    /\ \E a \in Tasks \ {last.task} :
            InFlight(a) /\ Top(a).request_id # last.request_id

Valid(inbound) == inbound # None /\ Len(inbound) = TraceIdLen

\* C10: a 36-character value in the configured header is the request id: the
\* handler reads it from the context, and the response carries it in the same
\* header.
C10_RoundTrip ==
    /\ \A t \in Tasks : (InFlight(t) /\ Valid(Top(t).inbound)) =>
            get_request_id(t) = Top(t).inbound
    /\ (last.kind = "read" /\ Valid(last.inbound)) => last.value = last.inbound
    /\ (last.kind = "response" /\ Valid(last.inbound)) =>
            /\ middleware[1].header_name \in DOMAIN last.headers
            /\ last.headers[middleware[1].header_name] = last.inbound

C10_Witness ==
    /\ last.kind = "response" /\ Valid(last.inbound)
    /\ middleware[1].header_name # DEFAULT_HEADER

\* A request whose header is absent or not 36 characters long.
Replaced(inbound) == ~Valid(inbound)

\* C11 as stated: whenever the header is absent or not 36 characters long, the
\* id stored in the context and echoed in the response is a generated one of
\* 36 characters.
C11_Generated36 ==
    /\ \A t \in Tasks : (InFlight(t) /\ Replaced(Top(t).inbound)) =>
            /\ Top(t).request_id # Top(t).inbound
            /\ Len(Top(t).request_id) = TraceIdLen
            /\ get_request_id(t) = Top(t).request_id
    /\ (last.kind = "response" /\ Replaced(last.inbound)) =>
            Len(last.headers[middleware[1].header_name]) = TraceIdLen

\* C11: whenever the header is absent or not 36 characters long, the inbound
\* value is dropped and what the configured generator returned is stored in
\* the context and echoed in the response header; with the default generator
\* it is 36 characters long; the context value and the header always agree.
C11_GeneratedByConfigured ==
    /\ \A t \in Tasks : (InFlight(t) /\ Replaced(Top(t).inbound)) =>
            /\ Top(t).request_id # Top(t).inbound
            /\ Top(t).request_id \in Generate(middleware[1].generator)
            /\ middleware[1].generator = DEFAULT_GENERATOR =>
                    Len(Top(t).request_id) = TraceIdLen
    /\ \A t \in Tasks : InFlight(t) => get_request_id(t) = Top(t).request_id
    /\ last.kind = "read" => last.value = last.request_id
    /\ last.kind = "response" =>
            /\ last.headers[middleware[1].header_name] = last.request_id
            /\ Replaced(last.inbound) =>
                    last.request_id \in Generate(middleware[1].generator)

\* A response to a request that sent a value one character short, under the
\* default generator.
C11_Witness ==
    /\ last.kind = "response"
    /\ last.inbound # None /\ Len(last.inbound) # TraceIdLen
    /\ middleware[1].generator = DEFAULT_GENERATOR
    /\ Len(last.headers[middleware[1].header_name]) = TraceIdLen

\* ------------------------------------------------------- HTTP layer claims
Null == [kind |-> "null"]

Envelope(code, data, message) == [code |-> code, data |-> data, message |-> message]

IsEnvelope(content) == {"code", "data", "message"} \subseteq DOMAIN content

PassesThrough(result) == isinstance(result, {"Response", "FastAPIResponse"})

\* C12: a request to a Zodiac route whose endpoint returns a value that is
\* neither an envelope nor a raw response is answered with status 200 and the
\* envelope {code: 0, message: "Success", data: the value}.
C12_PlainResultEnveloped ==
    (reply.op = "return" /\ ~PassesThrough(reply.result)) =>
        /\ reply.wrapped.ok
        /\ reply.sent = [status_code |-> 200,
                         content |-> Envelope(0, Json(reply.result), "Success")]

\* What the client is to see of an envelope or raw response the endpoint built.
Built(result) ==
    IF isinstance(result, {"Response"})
    THEN Envelope(result.code, Json(result.data), result.message)
    ELSE result.content

\* C13: an envelope or a raw HTTP response returned by the endpoint leaves the
\* route wrapper as the very same value, and the body the client sees has the
\* code, message and data the endpoint built, with no envelope inside its data.
C13_NoDoubleWrap ==
    (reply.op = "return" /\ PassesThrough(reply.result)) =>
        /\ reply.wrapped = Returned(reply.result)
        /\ reply.sent.content = Built(reply.result)
        /\ IsEnvelope(reply.sent.content) => ~IsEnvelope(reply.sent.content.data)

\* The endpoint returned Response(code=409, ...) and the client saw code 409.
C13_Witness ==
    /\ reply.op = "return"
    /\ reply.result.kind = "Response"
    /\ reply.sent.content.code = 409
    /\ reply.sent.content.data = Null

Wrapped(model) == "arg" \in DOMAIN model

Resolved(model) == IF model.name = "DefaultPlaceholder" THEN model.value ELSE model

\* The model handed to APIRoute for a declared model: wrapped exactly when the
\* declared one is not the envelope class, a subclass or Response[T].
WrappedIffNotEnvelope(declared, handed, inner) ==
    IF declared.envelope
    THEN handed = declared
    ELSE Wrapped(handed) /\ handed.arg = inner

\* C14: registering a route never raises; the response model, and the model
\* of each additional response, is wrapped in Response[T] exactly when it is
\* not the envelope class, a subclass of it or Response[T]; None, Any, plain
\* models and unions are wrapped.
C14_WrapsIffNotEnvelope ==
    reply.op = "route" =>
        /\ reply.route.ok
        /\ WrappedIffNotEnvelope(Resolved(reply.response_model),
                                 reply.route.value.response_model,
                                 IF Resolved(reply.response_model) = NoneType
                                 THEN AnyType ELSE Resolved(reply.response_model))
        /\ \A c \in DOMAIN reply.responses :
              IF "model" \in DOMAIN reply.responses[c]
              THEN WrappedIffNotEnvelope(reply.responses[c].model,
                                         reply.route.value.responses[c].model,
                                         reply.responses[c].model)
              ELSE reply.route.value.responses[c] = reply.responses[c]
        /\ \A m \in TypeExprs : _should_wrap(m) = Returned(~m.envelope)

\* A route declared with Union[User, None] and a 409 model that is a builtin
\* generic, both wrapped.
C14_Witness ==
    /\ reply.op = "route"
    /\ reply.response_model.name = "Union[User, None]"
    /\ 409 \in DOMAIN reply.responses
    /\ "model" \in DOMAIN reply.responses[409]
    /\ reply.responses[409].model.name = "list[User]"
    /\ reply.route.ok
    /\ Wrapped(reply.route.value.response_model)
    /\ Wrapped(reply.route.value.responses[409].model)

\* The fixed HTTP status and the default text of each exception tag.
TagStatus ==
    [tag \in Tags |->
        CASE tag = "BadRequestException" -> 400
          [] tag = "UnauthorizedException" -> 401
          [] tag = "ForbiddenException" -> 403
          [] tag = "NotFoundException" -> 404
          [] tag = "ConflictException" -> 409
          [] tag = "ZodiacException" -> 500]

TagText ==
    [tag \in Tags |->
        CASE tag = "BadRequestException" -> "Bad Request"
          [] tag = "UnauthorizedException" -> "Unauthorized"
          [] tag = "ForbiddenException" -> "Forbidden"
          [] tag = "NotFoundException" -> "Not Found"
          [] tag = "ConflictException" -> "Conflict"
          [] tag = "ZodiacException" -> "Internal Server Error"]

\* C15: an exception tag raised with no arguments is answered with the tag's
\* HTTP status and the envelope {code: that status, data: null, message: the
\* tag's default text}.
C15_TagDefaults ==
    (reply.op = "tag" /\ reply.kw = NoArgs) =>
        /\ reply.exc.code = TagStatus[reply.tag]
        /\ reply.sent = [status_code |-> TagStatus[reply.tag],
                         content |-> Envelope(TagStatus[reply.tag], Null,
                                              TagText[reply.tag])]

C15_Witness ==
    /\ reply.op = "tag" /\ reply.kw = NoArgs
    /\ reply.tag = "NotFoundException"
    /\ reply.sent.status_code = 404
    /\ reply.sent.content.message = "Not Found"

\* C16: every message, code or data supplied to an exception tag replaces that
\* field in the exception and in the envelope, every field not supplied keeps
\* the tag's default, and the HTTP status is the tag's whatever code was given.
C16_OverridesOnlySupplied ==
    reply.op = "tag" =>
        LET code == Arg(reply.kw, "code", TagStatus[reply.tag])
            data == Arg(reply.kw, "data", NoneValue)
            message == Arg(reply.kw, "message", TagText[reply.tag])
        IN  /\ reply.exc.code = code
            /\ reply.exc.data = data
            /\ "message" \in DOMAIN reply.kw => reply.exc.message = reply.kw.message
            /\ reply.sent = [status_code |-> TagStatus[reply.tag],
                             content |-> Envelope(code, Json(data), message)]

\* C17: an exception that is neither a ZodiacException nor a validation error
\* is answered with status 500 and the fixed envelope {code: 500, data: null,
\* message: "Internal Server Error"}, which holds none of the exception's
\* text, and the exception's text is logged once.
C17_CatchAllFixedBody ==
    (reply.op = "raise" /\ reply.exc \in OtherExceptions) =>
        /\ reply.sent = [status_code |-> 500,
                         content |-> Envelope(500, Null, "Internal Server Error")]
        /\ reply.sent.content.message # reply.exc.text
        /\ Len(reply.logged) = 1
        /\ reply.logged[1].text = reply.exc.text

C17_Witness ==
    /\ reply.op = "raise"
    /\ reply.exc = [kind |-> "KeyError", text |-> "secret-2"]
    /\ reply.sent.status_code = 500
    /\ Len(reply.logged) = 1

\* ------------------------------------------------------- pagination claims
\* The item paginate returns for the row at position k of n sequential rows.
ItemAt(k, transformer) == IF transformer THEN [kind |-> "Schema", id |-> k] ELSE k

\* C19: over a base query of n rows, paginate returns the rows at offset
\* (page-1)*size, at most size of them and none past the end, in order; total
\* is n whatever the page, the size and the statement's own limit and offset;
\* page and size are echoed; page 3 of size 10 over 100 rows is rows 21..30.
C19_PageSlice ==
    (reply.op = "page" /\ reply.params.ok) =>
        LET page == reply.params.value.page
            size == reply.params.value.size
            skip == (page - 1) * size
            out == reply.paged.result
            left == IF skip >= reply.n THEN 0 ELSE reply.n - skip
        IN  /\ Len(out.items) = (IF left < size THEN left ELSE size)
            /\ \A i \in 1..Len(out.items) :
                    out.items[i] = ItemAt(skip + i, reply.transformer)
            /\ out.total = reply.n
            /\ out.page = page /\ out.size = size
            /\ (reply.n = 100 /\ page = 3 /\ size = 10 /\ ~reply.transformer) =>
                    out.items = <<21, 22, 23, 24, 25, 26, 27, 28, 29, 30>>

\* Page 3 of size 10 over the 100 rows of a statement that carried its own
\* limit and offset.
C19_Witness ==
    /\ reply.op = "page" /\ reply.params.ok
    /\ reply.n = 100
    /\ reply.statement.limit # <<>>
    /\ reply.params.value = [page |-> 3, size |-> 10]
    /\ Len(reply.paged.result.items) = 10
    /\ reply.paged.result.total = 100

\* C20: PageParams is constructed exactly when page >= 1 and 1 <= size <= 100,
\* with page 1 and size 20 for what is left out and the values given
\* otherwise; anything else is a validation error and no query runs.
C20_RangeOrRejected ==
    reply.op = "page" =>
        LET page == IF "page" \in DOMAIN reply.kw THEN reply.kw.page ELSE 1
            size == IF "size" \in DOMAIN reply.kw THEN reply.kw.size ELSE 20
        IN  IF page >= 1 /\ size >= 1 /\ size <= 100
            THEN reply.params = Returned([page |-> page, size |-> size])
            ELSE /\ ~reply.params.ok
                 /\ reply.params.error = "ValidationError"
                 /\ reply.paged.queries = <<>>

\* size=101 was rejected and nothing was queried.
C20_Witness ==
    /\ reply.op = "page"
    /\ reply.kw = [size |-> 101]
    /\ ~reply.params.ok
    /\ reply.paged.queries = <<>>

\* ------------------------------------------------ middleware stack claims
\* The frames of requests the access-log layer has finished with.
AccessDone(t) ==
    {i \in 1..Len(stack[t]) :
        AccessEntered(stack[t][i]) /\ stack[t][i].access \in {"response", "raise"}}

\* C18: under register_middleware every request, once the access-log layer is
\* through with it, has exactly one access log line, with the method, the
\* path, a status code and the latency, logged while the trace id was set: the
\* line carries the id the response header carries.
C18_OneAccessLinePerRequest ==
    \A t \in Tasks : \A i \in AccessDone(t) :
        LET f == stack[t][i]
        IN  /\ Len(f.lines) = 1
            /\ f.lines[1].method = f.method
            /\ f.lines[1].path = f.path
            /\ f.lines[1].status_code \in StatusCodes \cup {500}
            /\ f.lines[1].latency \in Latencies
            /\ f.lines[1].request_id = f.request_id

Cancelled == Exited /\ ret.raised \in BaseOnlyClasses

\* C30 (as stated): when the block of a session scope is ended by a
\* BaseException that is not an Exception (task cancellation), close is awaited
\* exactly once, no rollback is issued, and that cancellation leaves the scope.
C30_CancellationClosesAndPropagates ==
    Cancelled => /\ ret.calls = <<"close">>
                 /\ ret.exc = ret.raised

\* C30 (amended): on that path close is awaited exactly once and rollback never;
\* the cancellation leaves the scope when close returns, and the exception of
\* close leaves in its place when close raises.
C30_CancellationClosesWithoutRollback ==
    Cancelled => /\ ret.calls = <<"close">>
                 /\ ret.failed = {} => ret.exc = ret.raised
                 /\ ret.failed # {} => ret.exc = CLOSE_ERROR

\* A cancelled block that had uncommitted changes, with a close that returned.
C30_Witness == Cancelled /\ ret.failed = {} /\ ret.dropped

Constructed == ret'.op = "DatabaseManager" /\ ret' # ret

\* C25: DatabaseManager is a strict singleton. Every construction returns the
\* object the module-level db is, and leaves both registries as they were, so
\* every engine registered before the construction is still the engine
\* get_engine returns after it.
C25_Singleton ==
    /\ [](_instance = db._instance)
    /\ [][Constructed =>
            /\ ret'.instance = db._instance[1]
            /\ UNCHANGED <<_engines, _session_factories, pool>>
            /\ \A n \in DictKeys(_engines) :
                  DictGet(_engines', n) = DictGet(_engines, n)]_vars

\* A construction made while two databases are set up.
C25_Witness == ret.op = "DatabaseManager" /\ Len(_engines) = 2

\* C28: in every state the engine registry and the session-factory registry
\* hold the same names, and the factory under a name is bound to the engine
\* under that name; calls that raised are among the calls made.
C28_RegistriesAgree ==
    /\ DictKeys(_engines) = DictKeys(_session_factories)
    /\ \A n \in DictKeys(_engines) :
          DictGet(_session_factories, n).bind = DictGet(_engines, n)

\* A session call that raised for a name not set up, beside one that is.
C28_Witness ==
    /\ ret.op \in {"db.session", "repo.session"}
    /\ ret.result # "ok"
    /\ Len(_engines) = 1 /\ Len(_session_factories) = 1

EnginesOf(d) == {d[i].v : i \in 1..Len(d)}

\* C29: however the setup calls of other tasks interleave with a running
\* shutdown, every engine that leaves the registry has been disposed: a
\* database registered while shutdown is suspended is not cleared undisposed.
C29_RemovedOnlyDisposed ==
    [][\A e \in EnginesOf(_engines) \ EnginesOf(_engines') : pool'[e].disposed]_vars

\* A setup of a new name ran while shutdown was suspended: shutdown's iterator
\* found the dict resized and raised, and both databases are still registered.
C29_Witness ==
    /\ ret.op = "shutdown" /\ ret.result = "RuntimeError"
    /\ Len(_engines) = 2
    /\ \E e \in EnginesOf(_engines) : ~pool[e].disposed

IsRegistered(name) == name \in DictKeys(_engines) /\ name \in DictKeys(_session_factories)

Entries(files) == {files[i] : i \in 1..Len(files)}

IsIni(f) == Len(f) >= 2 /\ f[Len(f)] = "ini"

IsBase(f) == IsIni(f) /\ Len(f) = 2

EnvSegment(f) == lower(f[Len(f) - 1])

\* The paths of a searched directory that exists, one per file in it.
Searched(search_paths) ==
    {[dir |-> dir, name |-> f] : dir \in {d \in Dirs : \E i \in 1..Len(search_paths) :
                                                    search_paths[i] = d},
                                 f \in FileNames}

OnDisk(p) == disk[p.dir] # <<>> /\ p.name \in disk[p.dir][1]

Called == found' # found

\* C21: in what get_config_files returns, every base file (name.ini) of the
\* searched directories stands before every file of the target environment
\* (name.<env>.ini, compared without regard to case); a file of another
\* environment, known or not, is absent; a search path that does not exist
\* adds nothing and does not make the call raise.
C21_BaseBeforeEnv ==
    [][Called =>
        LET files == found'.files
            target == found'.target_env
        IN  /\ \A p \in Searched(found'.search_paths) :
                  (OnDisk(p) /\ IsBase(p.name)) => p \in Entries(files)
            /\ \A p \in Searched(found'.search_paths) :
                  (OnDisk(p) /\ IsIni(p.name) /\ ~IsBase(p.name)) =>
                      (p \in Entries(files) <=> EnvSegment(p.name) = target)
            /\ \A i, j \in 1..Len(files) :
                  (IsBase(files[i].name) /\ ~IsBase(files[j].name)) => i < j
            /\ \A p \in Entries(files) : OnDisk(p) /\ IsIni(p.name)
            /\ files = get_config_files(SelectSeq(found'.search_paths, LAMBDA d : exists(d)),
                                        found'.default_env).files]_vars

\* The base file of the second directory is returned before the environment
\* file of the first; the file of another environment is left out, and a
\* search path that does not exist was among the paths.
C21_Witness ==
    /\ found.search_paths = <<"missing", "conf", "extra">>
    /\ found.files = << [dir |-> "extra", name |-> <<"app", "ini">>],
                        [dir |-> "conf", name |-> <<"app", "develop", "ini">>] >>
    /\ disk["conf"] = <<{<<"app", "develop", "ini">>, <<"app", "production", "ini">>}>>

\* ------------------------------------------------------- new command claims
Ran == cli' # cli

CompleteLine(argv) ==
    argv.project_name # <<>> /\ argv.template # <<>> /\ argv.output_dir # <<>>

ValidLine(argv) == CompleteLine(argv) /\ argv.template[1] \in VALID_TEMPLATES

TargetOf(argv) == <<argv.project_name[1]>>

\* The target is a directory with something in it.
NonEmptyDir(fs, target) == IsDir(fs, target) /\ \E e \in fs : Parent(e.path) = target

AlreadyExists == "Directory already exists. Use --force to overwrite."

\* C22: without --force the command does not generate into an existing
\* non-empty target directory: it exits non-zero with the 'already exists ...
\* Use --force to overwrite' error and leaves everything below the output
\* directory as it was; a command line that lacks a required parameter or
\* names a template that is no choice exits non-zero too, writing nothing.
C22_RefusesWithoutForce ==
    [][Ran =>
        LET argv == cli'.argv IN
        /\ (ValidLine(argv) /\ ~argv.force /\ NonEmptyDir(tree, TargetOf(argv))) =>
              /\ cli'.exit_code # ExitOk
              /\ cli'.message = AlreadyExists
              /\ tree' = tree
        /\ ~ValidLine(argv) => (cli'.exit_code # ExitOk /\ tree' = tree)]_vars

\* A refused run on a target that held a file of the user's.
C22_Witness ==
    /\ cli.message = AlreadyExists /\ cli.exit_code = ExitError
    /\ FileEntry(<<"proj", "old_file.txt">>, OldContent) \in cli.before
    /\ tree = cli.before

\* The files the template gives for a command line: one per .jinja file, at
\* the same relative path below the target, named without the suffix.
Outputs(argv) ==
    LET walk == CHOOSE w \in Walks : TRUE IN
    UNION {{FileEntry(TargetOf(argv) \o walk[i].rel_path \o <<walk[i].files[j][1]>>,
                      render(walk[i].rel_path, walk[i].files[j], argv.project_name[1],
                             argv.template[1])) :
               j \in {k \in 1..Len(walk[i].files) : walk[i].files[k][2] = ".jinja"}} :
           i \in 1..Len(walk)}

OutputPaths(argv) == {e.path : e \in Outputs(argv)}

\* The user's files that no template file maps to are all still there.
OthersKept(argv) ==
    \A e \in tree : (e.kind = "file" /\ e.path \notin OutputPaths(argv)) => e \in tree'

Forced(argv) == ValidLine(argv) /\ argv.force /\ TargetOf(argv) \in PathsOf(tree)
                    /\ IsDir(tree, TargetOf(argv))

\* C23 (as stated): with --force on an existing target directory the command
\* exits 0, every template file has its output, and every file of the user's
\* that no template file maps to is in place and unchanged.
C23_ForceGeneratesAndKeeps ==
    [][(Ran /\ Forced(cli'.argv)) =>
        /\ cli'.exit_code = ExitOk
        /\ Outputs(cli'.argv) \subseteq tree'
        /\ OthersKept(cli'.argv)]_vars

\* A file of the user's stands where the template has a directory, or a
\* directory where it has a file.
Blocked(fs, argv) ==
    \/ \E p \in OutputPaths(argv) : IsDir(fs, p) /\ p # <<>>
    \/ \E p \in OutputPaths(argv) : \E q \in Prefixes(Parent(p)) : IsFile(fs, q)

\* C23 (amended): with --force on an existing target directory in which no
\* file of the user's stands at the path of a template directory and no
\* directory at the path of an output file, the command exits 0 and every
\* template file has its output, the .jinja files only, named without the
\* suffix; where such an entry is in the way the command exits 1; in both
\* cases every file of the user's that no template file maps to is in place
\* and unchanged.
C23_ForceGeneratesUnlessBlocked ==
    [][(Ran /\ Forced(cli'.argv)) =>
        /\ OthersKept(cli'.argv)
        /\ ~Blocked(tree, cli'.argv) =>
              /\ cli'.exit_code = ExitOk
              /\ Outputs(cli'.argv) \subseteq tree'
              /\ \A e \in tree' \ tree : e.kind = "file" => e \in Outputs(cli'.argv)
        /\ Blocked(tree, cli'.argv) => cli'.exit_code = ExitError]_vars

\* A forced run over a target that held a file of the user's and an older
\* main.py: the one is kept, the other replaced by the rendered one.
C23_Witness ==
    /\ cli.message = "Project created" /\ cli.exit_code = ExitOk /\ cli.argv.force
    /\ FileEntry(<<"proj", "old_file.txt">>, OldContent) \in cli.before
    /\ FileEntry(<<"proj", "main.py">>, OldContent) \in cli.before
    /\ FileEntry(<<"proj", "old_file.txt">>, OldContent) \in tree
    /\ Outputs(cli.argv) \subseteq tree

\* ---------------------------------------------------------- timestamp claims
Updating == in_dirty /\ assigned' = {}

Modified == is_modified(record[1], table[1])

\* C24 (as stated): over every insert and update flush of a record, created_at
\* keeps the value the insert gave it, and every flush in which the record has
\* been modified sets updated_at to the current time, whether or not the
\* application assigned it.
C24_CreatedKeptUpdatedRefreshed ==
    /\ [][(table = <<>> /\ table' # <<>>) =>
            table'[1].created_at = record[1].created_at]_vars
    /\ [][Updating =>
            /\ table'[1].created_at = table[1].created_at
            /\ Modified => table'[1].updated_at = utc_now]_vars

\* C24 (amended): the insert stores created_at as the record was constructed
\* with, and no flush changes created_at unless the application itself has
\* assigned it, in which case the assigned value is stored; every flush in
\* which the record has been modified sets updated_at to the current time,
\* whether or not the application assigned it, and a flush in which it has not
\* leaves updated_at alone.
C24_CreatedKeptUnlessAssigned ==
    /\ [][(table = <<>> /\ table' # <<>>) =>
            table'[1].created_at = record[1].created_at]_vars
    /\ [][Updating =>
            /\ "created_at" \notin assigned => table'[1].created_at = table[1].created_at
            /\ table'[1].created_at = record[1].created_at
            /\ Modified => table'[1].updated_at = utc_now
            /\ ~Modified => table'[1].updated_at = table[1].updated_at]_vars

\* The name was changed later than the insert and flushed: created_at is the
\* time of construction, updated_at the later time of the flush.
C24_Witness ==
    /\ table # <<>> /\ assigned = {}
    /\ table[1].name = "MacBook Air"
    /\ table[1].created_at = 0
    /\ table[1].updated_at = 2

\* ------------------------------------------------------ documentation claims
\* The name the claim derives from a type: a named model gives its name, a
\* list gives List_ and the name of its item type, a bare type its own label.
RECURSIVE DerivedName(_)
DerivedName(t) ==
    IF t.args = <<>> THEN <<t.name>>
    ELSE <<t.name, "_">> \o DerivedName(t.args[1])

\* C27: the component a route's wrapped response model is documented under is
\* named Response_ followed by the name derived from the declared model: X for
\* a model X, List_X for List[X], List_List_X for List[List[X]], the generic
\* label for a bare type; so response_model=User gives Response_User.
C27_DerivedSchemaNames ==
    reply.op = "openapi" =>
        \A p \in DocPaths :
            reply.paths[p] # <<>> =>
                reply.paths[p][1].ref = <<"Response", "_">> \o DerivedName(reply.paths[p][1].model)

====
